---- MODULE Spec2Model ----
(***************************************************************************)
(* AGO WASH loyalty backend: the read-through / write-invalidate gateway   *)
(* between the Chain (smart contract) and the API, and the                 *)
(* record-transaction handler that drives it.                              *)
(*                                                                         *)
(* Every `await` of the JavaScript source is one step of the request that  *)
(* runs it: requests interleave only at awaits (single-threaded event      *)
(* loop), so the code between two awaits is atomic.                        *)
(***************************************************************************)
EXTENDS Integers, Sequences, FiniteSets, TLC

NULL == "null"

\* In-flight request slots of the event loop (two requests may overlap).
Procs == {"p1", "p2"}

\* Blockchain addresses. a1 is a registered user with a minted NFT; a2 is
\* known to nobody (no User document, no NFT).
Addrs == {"a1", "a2"}
RegisteredUsers == {"a1"}

\* Bound: total number of requests served in one behaviour.
MaxCalls == 2

\* The balance the Chain holds for the registered user at start, and the
\* points a recorded transaction may award (0: a transaction that leaves the
\* points unchanged).
InitialPoints == {950}
PointDeltas == {0, 60}

SilverThreshold == 1000
GoldThreshold == 5000

Tiers == {"Bronze", "Silver", "Gold"}

-----------------------------------------------------------------------------
(* Pure helpers *)

\* A tier function whose thresholds would be exclusive.
determineTierExclusive(points) ==
  IF points > GoldThreshold THEN "Gold"
  ELSE IF points > SilverThreshold THEN "Silver"
  ELSE "Bronze"

\* Determine tier based on points
determineTierByPoints(points) ==
  IF points >= GoldThreshold THEN "Gold"
  ELSE IF points >= SilverThreshold THEN "Silver"
  ELSE "Bronze"

\* `${prefix}:${identifier}` -- a key is the pair of its two parts.
generateKey(prefix, identifier) == <<prefix, identifier>>

CacheKeys == [USER_POINTS |-> "userPoints", FREE_WASH_STATUS |-> "freeWashStatus",
              ACTIVITY_LOG |-> "activityLog",
              NFT_METADATA |-> "nftMetadata", ADMINS |-> "admins"]

\* JSON.stringify of a non-negative integer: its decimal digits, most
\* significant first ("0" for 0). A string is a sequence of characters.
DigitChars == <<"0", "1", "2", "3", "4", "5", "6", "7", "8", "9">>

RECURSIVE PlainDigits(_)
PlainDigits(n) ==
  IF n < 10 THEN <<DigitChars[n + 1]>>
  ELSE Append(PlainDigits(n \div 10), DigitChars[(n % 10) + 1])

DigitOf(ch) == (CHOOSE i \in 1..10 : DigitChars[i] = ch) - 1

RECURSIVE PlainValue(_)
PlainValue(s) ==
  IF Len(s) = 0 THEN 0
  ELSE 10 * PlainValue(SubSeq(s, 1, Len(s) - 1)) + DigitOf(s[Len(s)])

\* Integers around 2^53, where a JavaScript number stops holding every
\* integer, lie beyond the integers of the model checker. The model writes
\* them as the integers from WideFrom on: WideFrom + k stands for
\* 2^53 - 8 + k = 9007199254740984 + k. Order and small sums are the same on
\* both sides; only the decimal digits and the rounding differ, and both are
\* computed on the number that is meant.
WideFrom == 1000000
WideFromDigits ==
  <<"9", "0", "0", "7", "1", "9", "9", "2", "5", "4", "7", "4", "0", "9", "8", "4">>

\* 2^53 = Number.MAX_SAFE_INTEGER + 1: the first integer whose successor a
\* double cannot hold.
TwoTo53 == WideFrom + 8

\* Sum of two digit strings and a carry.
RECURSIVE AddDigits(_, _, _)
AddDigits(s, t, carry) ==
  IF Len(s) = 0 /\ Len(t) = 0
    THEN IF carry = 0 THEN <<>> ELSE <<DigitChars[carry + 1]>>
    ELSE LET a == IF Len(s) = 0 THEN 0 ELSE DigitOf(s[Len(s)])
             b == IF Len(t) = 0 THEN 0 ELSE DigitOf(t[Len(t)])
             sum == a + b + carry
         IN Append(AddDigits(IF Len(s) = 0 THEN s ELSE SubSeq(s, 1, Len(s) - 1),
                             IF Len(t) = 0 THEN t ELSE SubSeq(t, 1, Len(t) - 1),
                             sum \div 10),
                   DigitChars[(sum % 10) + 1])

\* toString of an integer: its decimal digits.
Digits(n) ==
  IF n < WideFrom THEN PlainDigits(n)
  ELSE AddDigits(WideFromDigits, PlainDigits(n - WideFrom), 0)

\* The integer a digit string denotes.
\* A string of sixteen digits is one of 9007199254740984 + k with k below
\* 9016: it differs from WideFromDigits in its last four digits only.
DigitsValue(s) ==
  IF Len(s) < Len(WideFromDigits) THEN PlainValue(s)
  ELSE WideFrom + PlainValue(SubSeq(s, 13, 16))
                - PlainValue(SubSeq(WideFromDigits, 13, 16))

\* The double nearest to an integer below 2^54: the integer itself up to
\* 2^53, the nearest even integer beyond (a tie goes to the one whose
\* mantissa is even, a multiple of 4).
RoundToDouble(n) ==
  IF n <= TwoTo53 THEN n
  ELSE LET k == n - TwoTo53 IN
       TwoTo53 + (CASE k % 2 = 0 -> k
                    [] k % 4 = 1 -> k - 1
                    [] OTHER -> k + 1)

\* The pages and page sizes asked of the activity log.
PageNumbers == {1, 11}
PageSizes == {1, 11}

\* The identifier with its three parts run together.
ActivityIdentifierUnseparated(userAddress, page, pageSize) ==
  <<userAddress>> \o Digits(page) \o Digits(pageSize)

\* The template literal `${userAddress}:${page}:${pageSize}`.
ActivityIdentifier(userAddress, page, pageSize) ==
  <<userAddress>> \o <<":">> \o Digits(page) \o <<":">> \o Digits(pageSize)

ActivityKey(userAddress, page, pageSize) ==
  generateKey(CacheKeys.ACTIVITY_LOG, ActivityIdentifier(userAddress, page, pageSize))

\* The keys of the Redis keyspace the model follows.
Keys == ({CacheKeys.USER_POINTS, CacheKeys.FREE_WASH_STATUS, CacheKeys.NFT_METADATA}
           \X Addrs)
          \cup {<<CacheKeys.ADMINS, "list">>}
          \cup {ActivityKey(a, page, pageSize) :
                  a \in Addrs, page \in PageNumbers, pageSize \in PageSizes}

\* Payloads handed to cacheData: a number (points) or an object (NFT
\* metadata), told apart by typeof.
NumberPayload(n) == [typeof |-> "number", v |-> n]
ObjectPayload(o) == [typeof |-> "object", v |-> o]

ArrayPayload(l) == [typeof |-> "array", v |-> l]

\* A page of the activity log: an array of log objects, each with the user
\* and the (numeric) timestamp of the event.
LogsPayload(l) == [typeof |-> "logs", v |-> l]

RECURSIVE JoinLogs(_)
JoinLogs(l) ==
  IF Len(l) = 0 THEN <<>>
  ELSE <<"{", Head(l).user>> \o Digits(Head(l).timestamp) \o <<"}">>
         \o JoinLogs(Tail(l))

\* The position of the first closing brace of a string.
RECURSIVE ClosingBrace(_, _)
ClosingBrace(str, i) == IF str[i] = "}" THEN i ELSE ClosingBrace(str, i + 1)

RECURSIVE ParseLogs(_)
ParseLogs(str) ==
  IF Len(str) = 0 THEN <<>>
  ELSE LET end == ClosingBrace(str, 1) IN
       <<[user |-> str[2], timestamp |-> DigitsValue(SubSeq(str, 3, end - 1))]>>
         \o ParseLogs(SubSeq(str, end + 1, Len(str)))

BoolChars(b) == IF b THEN "true" ELSE "false"

\* An address as a string: the account it names and the letter case it is
\* written in. The Chain returns addresses in checksum (mixed) case; a
\* request may spell the same account in lower case.
Casings == {"lower", "checksum"}
Spelling(a, c) == [account |-> a, casing |-> c]
ChainSpelling(a) == Spelling(a, "checksum")
toLowerCase(s) == [s EXCEPT !.casing = "lower"]

RECURSIVE JoinSpellings(_)
JoinSpellings(l) ==
  IF Len(l) = 0 THEN <<>>
  ELSE <<Head(l).account, Head(l).casing>> \o JoinSpellings(Tail(l))

\* JSON.stringify: a number becomes its digit string, an object a string
\* that opens with a brace and lists its fields (NFT metadata: tier and
\* exists; free-wash status: available, used and the digits of expiryTime),
\* an array of addresses a string that opens with a bracket.
JSONStringify(data) ==
  IF data.typeof = "number" THEN Digits(data.v)
  ELSE IF data.typeof = "array" THEN <<"[">> \o JoinSpellings(data.v)
  ELSE IF data.typeof = "logs" THEN <<"[">> \o JoinLogs(data.v)
  ELSE IF "tier" \in DOMAIN data.v
    THEN <<"{", data.v.tier, BoolChars(data.v.exists)>>
    ELSE <<"{", "available", BoolChars(data.v.available), BoolChars(data.v.used)>>
           \o Digits(data.v.expiryTime)

\* JSON.parse, the inverse reading of such a string.
JSONParse(str) ==
  IF str[1] = "[" /\ Len(str) > 1 /\ str[2] = "{"
    THEN LogsPayload(ParseLogs(Tail(str)))
  ELSE IF str[1] = "["
    THEN ArrayPayload([i \in 1 .. ((Len(str) - 1) \div 2) |->
                         Spelling(str[2 * i], str[2 * i + 1])])
  ELSE IF str[1] # "{" THEN NumberPayload(RoundToDouble(DigitsValue(str)))
  ELSE IF str[2] = "available"
    THEN ObjectPayload([available |-> str[3] = "true", used |-> str[4] = "true",
                        expiryTime |-> DigitsValue(SubSeq(str, 5, Len(str)))])
    ELSE ObjectPayload([tier |-> str[2], exists |-> str[3] = "true"])

\* Number(points.toString()) on the BigNumber the contract returns.
NumberOfBigNumber(bn) == RoundToDouble(DigitsValue(Digits(bn)))

\* An entry of the Redis keyspace: absent, or present with its string.
Absent == [present |-> FALSE, str |-> <<>>]
Stored(str) == [present |-> TRUE, str |-> str]

\* A truthiness test on the parsed value instead: it would take a cached
\* balance of 0 for a miss.
FalsyValue(entry) == ~entry.present \/ Len(entry.str) = 0 \/ entry.str = <<"0">>

\* `!data` on what redis.get returned: null (absent key) and "" are falsy.
Falsy(entry) == ~entry.present \/ Len(entry.str) = 0

\* A getCachedData without its catch: a Redis error reaches the caller.
getCachedDataRethrowing(c, key, ok) ==
  IF ~ok THEN [hit |-> FALSE, data |-> NumberPayload(0), threw |-> TRUE]
  ELSE IF Falsy(c[key]) THEN [hit |-> FALSE, data |-> NumberPayload(0), threw |-> FALSE]
  ELSE [hit |-> TRUE, data |-> JSONParse(c[key].str), threw |-> FALSE]

\* cacheService.getCachedData: the parsed entry, or null on a miss and on any
\* Redis error (the error is logged, never rethrown).
getCachedData(c, key, ok) ==
  IF ~ok THEN [hit |-> FALSE, data |-> NumberPayload(0), threw |-> FALSE]
  ELSE IF Falsy(c[key]) THEN [hit |-> FALSE, data |-> NumberPayload(0), threw |-> FALSE]
  ELSE [hit |-> TRUE, data |-> JSONParse(c[key].str), threw |-> FALSE]

\* cacheService.cacheData: SETEX key 600 JSON.stringify(data); errors absorbed.
cacheData(c, key, data, ok) ==
  IF ok THEN [c EXCEPT ![key] = Stored(JSONStringify(data))] ELSE c

\* cacheService.invalidateCache: DEL key; errors absorbed (returns false).
invalidateCache(c, key, ok) ==
  IF ok THEN [c EXCEPT ![key] = Absent] ELSE c

-----------------------------------------------------------------------------
VARIABLES
  chainPoints,   \* Chain: points balance per address
  chainNFT,      \* Chain: NFT metadata record per address
  chainAdmins,   \* Chain: raw admin list (the owner is held apart)
  chainTxs,      \* Chain: transactions recorded, as [hash, addr, attempt]
  chainWash,     \* Chain: free-wash coupon per address
  chainNow,      \* Chain: block time, the clock expiry times are measured
                 \* against (the server's clock is taken to agree with it)
  redisClient,   \* database.js module variable: NULL until connectRedis
  redisFaults,   \* whether commands on the connection may be rejected
  notifyFaults,  \* whether the mail service (SES) and the websocket server
                 \* may fail
  users,         \* MongoDB: the addresses that have a User document
  cache,         \* Redis keyspace: key -> entry
  unreadWrite,   \* history: per address, a write returned and no read began since
  filled,        \* history: per address, the value returned by the read that
                 \* stored the points entry now in the cache (0 while there is none)
  store,         \* MongoDB: committed Transaction documents
  calls,         \* number of requests started so far
  pc,            \* per request slot: position in the handler
  call,          \* per request slot: [op, addr, id, arg]
  txn,           \* per request slot: Transaction document held in the session
  lv,            \* per request slot: local variables of the handler
  resp,          \* per request slot: HTTP response sent (status 0: none)
  hist           \* per request slot: history of what this request did

vars == <<chainPoints, chainNFT, chainAdmins, chainTxs, chainWash, chainNow, redisClient, redisFaults,
          notifyFaults, users, cache,
          unreadWrite, filled, store, calls, pc, call, txn, lv,
          resp, hist>>

chainVars == <<chainPoints, chainNFT, chainAdmins, chainTxs, chainWash, chainNow>>

NoCall == [op |-> "none", addr |-> "a1", id |-> 0, arg |-> NULL]
\* The free-wash status of an address that was never granted a coupon.
NoCoupon == [available |-> FALSE, used |-> FALSE, expiryTime |-> 0]

NoLocals == [points |-> 0, nftTier |-> "", nftExists |-> FALSE, newTier |-> NULL,
             txHash |-> 0, toInvalidate |-> <<>>, status |-> NoCoupon,
             adminsList |-> <<>>, heldBefore |-> {}, cacheKey |-> NULL,
             logs |-> <<>>]
NoResp == [status |-> 0, error |-> NULL, failedAt |-> "none", points |-> 0,
           signature |-> FALSE,
           tier |-> NULL, txHash |-> 0,
           active |-> FALSE, expiryTime |-> 0, used |-> FALSE, admin |-> FALSE,
           logs |-> <<>>]
NoTxn == [open |-> FALSE, recordedOnChain |-> FALSE, blockchainTxHash |-> 0,
          session |-> <<>>]

\* The session of a request that has returned: no document held any more,
\* and the calls that were made to finish it, in order.
Finished(sessionCalls) == [NoTxn EXCEPT !.session = sessionCalls]

Aborted == Finished(<<"abortTransaction", "endSession">>)
NoHist == [chainWrite |-> "none", delta |-> 0,
           pointsFrom |-> "none", chainValue |-> 0, forcedMiss |-> FALSE,
           tierMails |-> 0, tierCasts |-> 0, txCasts |-> 0, washMails |-> 0,
           adminsFrom |-> "none", rawAdmins |-> {}, callerAdmin |-> FALSE,
           signatures |-> 0, lost |-> {}, early |-> {}, follows |-> "none",
           logsFrom |-> "none", askedIndex |-> 0, askedSize |-> 0]

NoNFT == [tier |-> "", exists |-> FALSE]

\* The websocket server is attached to the app (req.app.get('io')).
IoAttached == TRUE

\* The contract's owner: an account of its own, fixed at deployment.
Owner == "a0"
Accounts == Addrs \cup {Owner}

\* `warm` is what the cache may hold at the start: one key and its entry.
InitCached(balances, coupons, admins, connections, notifying, warm) ==
  /\ chainPoints \in balances
  /\ notifyFaults \in notifying
  /\ chainWash \in coupons
  /\ chainNow = 0
  /\ chainNFT = [a \in Addrs |->
                   IF a \in RegisteredUsers THEN [tier |-> "Bronze", exists |-> TRUE]
                   ELSE NoNFT]
  /\ chainAdmins \in admins
  /\ chainTxs = {}
  /\ \E c \in connections : redisClient = c[1] /\ redisFaults = c[2]
  /\ \E w \in warm : cache = [k \in Keys |-> IF k = w[1] THEN w[2] ELSE Absent]
  /\ unreadWrite = [a \in Addrs |-> FALSE]
  /\ filled = [a \in Addrs |-> 0]
  /\ store = {}
  /\ users = RegisteredUsers
  /\ calls = 0
  /\ pc = [p \in Procs |-> "idle"]
  /\ call = [p \in Procs |-> NoCall]
  /\ txn = [p \in Procs |-> NoTxn]
  /\ lv = [p \in Procs |-> NoLocals]
  /\ resp = [p \in Procs |-> NoResp]
  /\ hist = [p \in Procs |-> NoHist]

\* An empty cache.
Cold == {<<generateKey(CacheKeys.ADMINS, "list"), Absent>>}

InitEnv(balances, coupons, admins, connections, notifying) ==
  InitCached(balances, coupons, admins, connections, notifying, Cold)

\* Every e-mail is accepted by SES and every emit goes through.
Delivering == {FALSE}

InitAll(balances, coupons, admins, connections) ==
  InitEnv(balances, coupons, admins, connections, Delivering)

\* The raw admin list is empty.
NoAdmins == {{}}

InitChainWith(balances, coupons, connections) ==
  InitAll(balances, coupons, NoAdmins, connections)

\* Nobody holds a free-wash coupon.
NoCoupons == {[a \in Addrs |-> NoCoupon]}

InitWith(balances, connections) == InitChainWith(balances, NoCoupons, connections)

\* The registered user holds one of `points`, everybody else nothing.
Balances(points) ==
  {[a \in Addrs |-> IF a \in RegisteredUsers THEN b ELSE 0] : b \in points}

\* Redis as the process may find it: connectRedis never ran (every command
\* throws in getRedisClient), or a connection whose commands may be rejected.
Unreliable == {<<NULL, FALSE>>, <<"client", TRUE>>}
\* A connection on which every command resolves.
Steady == {<<"client", FALSE>>}

Init == InitWith(Balances(InitialPoints), Unreliable)

\* getRedisClient throws while redisClient is null; a command on a connected
\* client resolves or rejects.
CacheOutcomes ==
  IF redisClient = NULL THEN {FALSE}
  ELSE IF redisFaults THEN {TRUE, FALSE} ELSE {TRUE}

\* ses.sendEmail(...).promise() resolves or rejects; io.emit returns or throws.
NotifyOutcomes == IF notifyFaults THEN {TRUE, FALSE} ELSE {TRUE}

Epoch == Cardinality(chainTxs)

PointsKey(a) == generateKey(CacheKeys.USER_POINTS, a)
NFTKey(a) == generateKey(CacheKeys.NFT_METADATA, a)
FreeWashKey(a) == generateKey(CacheKeys.FREE_WASH_STATUS, a)
AdminsKey == generateKey(CacheKeys.ADMINS, "list")

\* The points entries that left the cache between c and d are forgotten.
Forget(f, c, d) ==
  [a \in Addrs |-> IF c[PointsKey(a)].present /\ ~d[PointsKey(a)].present
                     THEN 0 ELSE f[a]]

-----------------------------------------------------------------------------
(* Requests *)

FirstPc(o) == CASE o = "record" -> "h_begin"
                [] o \in {"points", "signRedeem"} -> "gp_get"
                [] o = "washStatus" -> "fw_get"
                [] o = "metadata" -> "nm_get"
                [] o = "isAdmin" -> "ia_get"
                [] o = "activityLog" -> "al_get"
                [] o = "add-user" -> "au_begin"
                [] o = "update-nft-frame" -> "uf_begin"
                [] o \in {"add-admin", "remove-admin"} -> "ca_begin"
                [] OTHER -> "w_call"

\* The tier an update-NFT request carries; the other requests carry none.
\* An isAdmin call carries the letter case its address is spelled in. A
\* request to an admin route carries: whether its Authorization header holds
\* the API key, whether its body names adminAddress (the address to add or
\* remove, call.addr), the callerAddress it gives (or none), and the letter
\* case of its addresses.
PackageTypes == 0 .. 4

ArgsOf(o) ==
  CASE o = "updateNFT" -> Tiers
    [] o = "signRedeem" -> PackageTypes
    [] o = "activityLog" -> [page : PageNumbers, pageSize : PageSizes]
    [] o = "isAdmin" ->
         [apiKey : {TRUE}, named : {TRUE}, caller : {NULL}, casing : Casings]
    [] o \in {"add-admin", "remove-admin"} ->
         [apiKey : BOOLEAN, named : BOOLEAN, caller : Accounts \cup {NULL},
          casing : Casings]
    [] OTHER -> {NULL}

\* The addresses a request may name: reads of the model go to the registered
\* user, whose keys the record-transaction handler invalidates.
AddrsOf(o) ==
  CASE o \in {"points", "metadata", "washStatus", "signRedeem"} -> RegisteredUsers
    [] o = "isAdmin" -> Accounts
    [] OTHER -> Addrs

\* The gateway writes and the read each of them invalidates.
WriteThenRead == {<<"addAdmin", "isAdmin">>, <<"removeAdmin", "isAdmin">>,
                  <<"updateNFT", "metadata">>, <<"recordTx", "activityLog">>}

\* History: the write this request follows. A request (o, a) that takes the
\* slot of a returned, successful gateway write on the same address, and
\* reads what that write invalidates, follows it.
Follows(p, o, a) ==
  IF /\ pc[p] = "done"
     /\ resp[p].status = 200
     /\ call[p].addr = a
     /\ <<call[p].op, o>> \in WriteThenRead
    THEN call[p].op ELSE "none"

\* A request of one of the kinds `ops` arrives and is routed to its handler.
\* It takes the first free slot: p2 is used only while p1 is busy.
Start(p, ops) ==
  /\ pc[p] \in {"idle", "done"}
  /\ p = "p2" => pc["p1"] \notin {"idle", "done"}
  /\ calls < MaxCalls
  /\ \E o \in ops :
       \E a \in AddrsOf(o), g \in ArgsOf(o) :
         /\ call' = [call EXCEPT ![p] = [op |-> o, addr |-> a, id |-> calls + 1, arg |-> g]]
         /\ pc' = [pc EXCEPT ![p] = FirstPc(o)]
         /\ hist' = [hist EXCEPT ![p] = [NoHist EXCEPT !.follows = Follows(p, o, a)]]
  /\ calls' = calls + 1
  /\ txn' = [txn EXCEPT ![p] = NoTxn]
  /\ lv' = [lv EXCEPT ![p] = NoLocals]
  /\ resp' = [resp EXCEPT ![p] = NoResp]
  /\ UNCHANGED <<chainVars, redisClient, redisFaults, notifyFaults, users, cache, unreadWrite, filled, store>>

\* The request ends with a response; its locals die with it.
Respond(p, r) ==
  /\ resp' = [resp EXCEPT ![p] = r]
  /\ pc' = [pc EXCEPT ![p] = "done"]
  /\ lv' = [lv EXCEPT ![p] = NoLocals]

Failure(status, error, at) == [NoResp EXCEPT !.status = status, !.error = error,
                                             !.failedAt = at]

\* The Transaction document as the collection shows it.
Visible(doc, c) == [attempt |-> c.id, userAddress |-> c.addr,
                    recordedOnChain |-> doc.recordedOnChain,
                    blockchainTxHash |-> doc.blockchainTxHash]

\* An abort that would leave the session's document behind.
AbortKeepingDocument(committed, doc, c) ==
  IF doc.open THEN committed \cup {Visible(doc, c)} ELSE committed

\* session.abortTransaction(): the documents saved in the session are dropped.
AbortTransaction(committed, doc, c) == committed

\* session.commitTransaction(): the document saved in the session becomes visible.
CommitTransaction(committed, doc, c) == committed \cup {Visible(doc, c)}

\* A save without { session }: the write is visible at once, replacing the
\* document's earlier version.
SaveOutsideSession(committed, doc, c) ==
  {r \in committed : r.attempt # c.id} \cup {Visible(doc, c)}

\* transaction.save({ session }): the write stays inside the session.
SaveInSession(committed, doc, c) == committed

\* A lookup that would find a user for every address.
AnyUser(a) == TRUE

\* User.findOne({ userAddress })
UserExists(a) == a \in users

\* The outer catch (lines 149-164): abort, 500 Internal Server Error.
OuterCatch(p, at) ==
  /\ store' = AbortTransaction(store, txn[p], call[p])
  /\ txn' = [txn EXCEPT ![p] = Aborted]
  /\ Respond(p, Failure(500, "Internal Server Error", at))

\* The inner catch (lines 132-147): abort, 500 Blockchain Error.
InnerCatch(p, at) ==
  /\ store' = AbortTransaction(store, txn[p], call[p])
  /\ txn' = [txn EXCEPT ![p] = Aborted]
  /\ Respond(p, Failure(500, "Blockchain Error", at))

\* recordTransactionHandler, lines 16-48: open the session and look the user
\* up (404 when there is none); then the Transaction document, recordedOnChain
\* false, is saved in the session. A failing save lands in the outer catch.
H_Begin(p) ==
  /\ pc[p] = "h_begin"
  /\ IF ~UserExists(call[p].addr)
       THEN /\ Respond(p, Failure(404, "User Not Found", "none"))
            /\ store' = AbortTransaction(store, txn[p], call[p])
            /\ txn' = [txn EXCEPT ![p] = Aborted]
       ELSE \E ok \in BOOLEAN :
              IF ok
                THEN /\ txn' = [txn EXCEPT ![p] = [NoTxn EXCEPT !.open = TRUE]]
                     /\ store' = SaveInSession(store, txn'[p], call[p])
                     /\ pc' = [pc EXCEPT ![p] = "w_call"]
                     /\ UNCHANGED <<resp, lv>>
                ELSE OuterCatch(p, "save1")
  /\ UNCHANGED <<chainVars, redisClient, redisFaults, notifyFaults, users, cache, unreadWrite,
                 filled, calls, call, hist>>

-----------------------------------------------------------------------------
(* The gateway's writes *)

\* The keys a gateway write invalidates once the Chain call has succeeded.
InvalidationKeys(o, a) ==
  CASE o \in {"record", "recordTx"} -> <<PointsKey(a), FreeWashKey(a), NFTKey(a)>>
    [] o \in {"updateNFT", "update-nft-frame"} -> <<NFTKey(a)>>
    [] OTHER -> <<AdminsKey>>

\* A write that would invalidate its keys whether or not the Chain call
\* succeeded.
CacheInvalidatedAnyway(c, o, a) ==
  [k \in Keys |-> IF \E i \in 1..Len(InvalidationKeys(o, a)) : InvalidationKeys(o, a)[i] = k
                    THEN Absent ELSE c[k]]

\* What a gateway write does to the cache when its Chain call has failed:
\* the throw skips the invalidations.
CacheAfterFailedWrite(c, o, a) == c

IsRecord(o) == o \in {"record", "recordTx"}

\* History: the keys a write is about to invalidate that hold an entry when
\* its Chain call is made.
HeldKeys(o, a) ==
  {k \in Keys : /\ \E i \in 1 .. Len(InvalidationKeys(o, a)) : InvalidationKeys(o, a)[i] = k
                /\ cache[k].present}

\* contract.call(...) of recordTransaction / updateNFTMetadata / addAdmin /
\* removeAdmin: the Chain applies the write, or the call fails and throws. A
\* throw of recordTransaction lands in the handler's inner catch.
\* The contract is not part of the repository. Its recordTransaction awards
\* the user some points (one of PointDeltas) and leaves the NFT's tier alone:
\* the tier changes only through updateNFTMetadata, which needs a minted NFT
\* (the tier-upgrade e-mail asks an admin to make that call).
W_ChainCall(p) ==
  /\ pc[p] = "w_call"
  /\ LET c == call[p] IN
     \E ok \in BOOLEAN, d \in PointDeltas :
       /\ (~IsRecord(c.op) \/ ~ok) => d = 0
       /\ (c.op \in {"updateNFT", "update-nft-frame"} /\ ok) => chainNFT[c.addr].exists
       /\ IF ok
            THEN /\ chainPoints' = IF IsRecord(c.op)
                                     THEN [chainPoints EXCEPT ![c.addr] = @ + d]
                                     ELSE chainPoints
                 /\ chainTxs' = IF IsRecord(c.op)
                                  THEN chainTxs \cup {[hash |-> Epoch + 1, addr |-> c.addr,
                                                       attempt |-> c.id]}
                                  ELSE chainTxs
                 /\ chainNFT' = CASE c.op = "updateNFT" ->
                                         [chainNFT EXCEPT ![c.addr].tier = c.arg]
                                   [] c.op = "update-nft-frame" ->
                                         [chainNFT EXCEPT ![c.addr].tier = lv[p].newTier]
                                   [] OTHER -> chainNFT
                 /\ chainAdmins' = CASE c.op \in {"addAdmin", "add-admin"} ->
                                            chainAdmins \cup {c.addr}
                                     [] c.op \in {"removeAdmin", "remove-admin"} ->
                                            chainAdmins \ {c.addr}
                                     [] OTHER -> chainAdmins
                 /\ UNCHANGED <<chainWash, chainNow>>
                 /\ lv' = [lv EXCEPT ![p].txHash = Epoch + 1,
                                     ![p].toInvalidate = InvalidationKeys(c.op, c.addr),
                                     ![p].heldBefore = HeldKeys(c.op, c.addr)]
                 /\ hist' = [hist EXCEPT ![p].chainWrite = "ok", ![p].delta = d]
                 /\ pc' = [pc EXCEPT ![p] = "w_inv"]
                 /\ cache' = cache
                 /\ UNCHANGED <<resp, txn, store>>
            ELSE /\ cache' = CacheAfterFailedWrite(cache, c.op, c.addr)
                 /\ hist' = [hist EXCEPT ![p].chainWrite = "failed"]
                 /\ IF c.op = "record"
                      THEN InnerCatch(p, "chainWrite")
                      ELSE /\ Respond(p, Failure(500, "Blockchain Error", "chainWrite"))
                           /\ UNCHANGED <<txn, store>>
                 /\ UNCHANGED chainVars
  /\ filled' = Forget(filled, cache, cache')
  /\ UNCHANGED <<redisClient, redisFaults, notifyFaults, users, unreadWrite, calls, call>>

\* updateNFTFrame, lines 156-179: updateNFTMetadata has returned; the user's
\* metadataURI is saved and the handler answers 200 with the new tier. A
\* failing user.save (or a throwing emit) lands in the catch: 500.
FrameUpdated(p) ==
  \E saved \in BOOLEAN :
    Respond(p, IF saved
                 THEN [NoResp EXCEPT !.status = 200, !.txHash = lv[p].txHash,
                                     !.tier = lv[p].newTier]
                 ELSE Failure(500, "Blockchain Error", "userSave"))

\* await invalidateCache(key), one key after the other; after the last one
\* the gateway returns { success: true, txHash }.
W_Invalidate(p) ==
  /\ pc[p] = "w_inv"
  /\ LET c == call[p]
         key == Head(lv[p].toInvalidate)
         rest == Tail(lv[p].toInvalidate) IN
     \E ok \in CacheOutcomes :
       /\ cache' = invalidateCache(cache, key, ok)
       /\ IF rest # <<>>
            THEN /\ lv' = [lv EXCEPT ![p].toInvalidate = rest]
                 /\ UNCHANGED <<pc, resp, unreadWrite>>
            ELSE /\ unreadWrite' = IF IsRecord(c.op)
                                     THEN [unreadWrite EXCEPT ![c.addr] = TRUE]
                                     ELSE unreadWrite
                 /\ IF c.op = "record"
                      THEN /\ pc' = [pc EXCEPT ![p] = "h_confirm"]
                           /\ lv' = [lv EXCEPT ![p].toInvalidate = rest,
                                               ![p].heldBefore = {}]
                           /\ UNCHANGED resp
                      ELSE IF c.op = "update-nft-frame"
                        THEN FrameUpdated(p)
                        ELSE Respond(p, [NoResp EXCEPT !.status = 200,
                                                       !.txHash = lv[p].txHash])
  /\ filled' = Forget(filled, cache, cache')
  /\ UNCHANGED <<chainVars, redisClient, redisFaults, notifyFaults, users, store, calls, call, txn, hist>>

\* History: what an e-mail sent now comes before. The session is open until
\* the commit of line 97; the points are re-read at line 71.
EarlyMail(p, mail) ==
  (IF txn[p].open THEN {<<mail, "commit">>} ELSE {})
    \cup (IF hist[p].pointsFrom = "none" THEN {<<mail, "points re-read">>} ELSE {})

\* Lines 54-68: recordedOnChain = true, blockchainTxHash = result.txHash,
\* saved in the session (a failing save lands in the inner catch); then the
\* free-wash e-mail, whose failure sendEmail reports as false and the handler
\* ignores.
H_Confirm(p) ==
  /\ pc[p] = "h_confirm"
  /\ \E ok \in BOOLEAN, mailed \in NotifyOutcomes :
       /\ ~ok => mailed
       /\ IF ok
         THEN /\ txn' = [txn EXCEPT ![p].recordedOnChain = TRUE,
                                    ![p].blockchainTxHash = lv[p].txHash]
              /\ store' = SaveInSession(store, txn'[p], call[p])
              /\ hist' = [hist EXCEPT ![p].washMails = @ + 1,
                                      ![p].lost = IF mailed THEN @ ELSE @ \cup {"washMail"},
                                      ![p].early = @ \cup EarlyMail(p, "washMail")]
              /\ pc' = [pc EXCEPT ![p] = "gp_get"]
              /\ UNCHANGED <<resp, lv>>
         ELSE /\ InnerCatch(p, "save2")
              /\ UNCHANGED hist
  /\ UNCHANGED <<chainVars, redisClient, redisFaults, notifyFaults, users, cache, unreadWrite,
                 filled, calls, call>>

-----------------------------------------------------------------------------
(* getUserPoints and getNFTMetadata: read-through *)

\* A read threw: getUserPoints / getNFTMetadata rethrow. In the
\* record-transaction handler the throw lands in the inner catch; the
\* endpoints answer 500.
ReadThrows(p, at) ==
  IF call[p].op = "record"
    THEN InnerCatch(p, at)
    ELSE /\ Respond(p, IF call[p].op = "signRedeem"
                         THEN Failure(400, "Signature Error", at)
                         ELSE Failure(500, "Blockchain Error", at))
         /\ UNCHANGED <<txn, store>>

\* signRedeemPackage, lines 251-265: the points a package costs.
BasicPoints == 1000
PremiumPoints == 3000
DeluxePoints == 5000

ValidPackage(packageType) == packageType \in {1, 2, 3}

\* A price list on which every package costs what the basic one does.
RequiredPointsFlat(packageType) == BasicPoints

RequiredPoints(packageType) ==
  CASE packageType = 1 -> BasicPoints
    [] packageType = 2 -> PremiumPoints
    [] packageType = 3 -> DeluxePoints

\* signRedeemPackage after its getUserPoints, lines 251-270: an unknown
\* package type and a balance below the package's price throw, and the
\* controller answers 400 with the message; else the signature is generated.
RedeemChecked(p, points) ==
  LET packageType == call[p].arg IN
  IF ~ValidPackage(packageType)
    THEN Respond(p, Failure(400, "Invalid package type", "packageType"))
    ELSE IF points < RequiredPoints(packageType)
      THEN Respond(p, Failure(400, "Insufficient points", "points"))
      ELSE /\ pc' = [pc EXCEPT ![p] = "sr_sign"]
           /\ lv' = [lv EXCEPT ![p].points = points]
           /\ UNCHANGED resp

\* getUserPoints returned `points` to its caller: the handler computes the
\* new tier and goes on to getNFTMetadata, the points endpoint answers 200.
PointsReturned(p, points) ==
  IF call[p].op \in {"record", "update-nft-frame"}
    THEN /\ pc' = [pc EXCEPT ![p] = "nm_get"]
         /\ lv' = [lv EXCEPT ![p].points = points,
                             ![p].newTier = determineTierByPoints(points)]
         /\ UNCHANGED resp
    ELSE IF call[p].op = "signRedeem" THEN RedeemChecked(p, points)
    ELSE Respond(p, [NoResp EXCEPT !.status = 200, !.points = points])

\* getUserPoints, lines 13-18: the cache is asked first.
GP_CacheGet(p) ==
  /\ pc[p] = "gp_get"
  /\ LET a == call[p].addr
         key == PointsKey(a) IN
     \E ok \in CacheOutcomes :
       LET got == getCachedData(cache, key, ok) IN
       /\ unreadWrite' = [unreadWrite EXCEPT ![a] = FALSE]
       /\ IF got.threw
            THEN /\ ReadThrows(p, "gp_cache")
                 /\ UNCHANGED hist
            ELSE IF got.hit
              THEN /\ hist' = [hist EXCEPT ![p].pointsFrom = "cache"]
                   /\ PointsReturned(p, got.data.v)
                   /\ UNCHANGED <<txn, store>>
              ELSE /\ pc' = [pc EXCEPT ![p] = "gp_chain"]
                   /\ hist' = [hist EXCEPT ![p].forcedMiss = ~ok]
                   /\ UNCHANGED <<lv, resp, txn, store>>
  /\ UNCHANGED <<chainVars, redisClient, redisFaults, notifyFaults, users, cache, filled, calls, call>>

\* Lines 20-25: contract.getUserPoints, converted from BigNumber.
GP_ChainRead(p) ==
  /\ pc[p] = "gp_chain"
  /\ LET a == call[p].addr IN
     \E ok \in BOOLEAN :
       IF ok
         THEN /\ lv' = [lv EXCEPT ![p].points = NumberOfBigNumber(chainPoints[a])]
              /\ hist' = [hist EXCEPT ![p].pointsFrom = "chain",
                                      ![p].chainValue = chainPoints[a]]
              /\ pc' = [pc EXCEPT ![p] = "gp_set"]
              /\ UNCHANGED <<resp, txn, store>>
         ELSE /\ ReadThrows(p, "gp_chain")
              /\ UNCHANGED hist
  /\ UNCHANGED <<chainVars, redisClient, redisFaults, notifyFaults, users, cache, unreadWrite,
                 filled, calls, call>>

\* Lines 27-30: cacheData(cacheKey, pointsValue), then return pointsValue.
GP_CacheSet(p) ==
  /\ pc[p] = "gp_set"
  /\ LET a == call[p].addr
         key == PointsKey(a) IN
     \E ok \in CacheOutcomes :
       /\ cache' = cacheData(cache, key, NumberPayload(lv[p].points), ok)
       /\ filled' = IF ok THEN [filled EXCEPT ![a] = lv[p].points] ELSE filled
  /\ PointsReturned(p, lv[p].points)
  /\ UNCHANGED <<chainVars, redisClient, redisFaults, notifyFaults, users, unreadWrite, store, calls, call, txn, hist>>

\* getNFTMetadata returned to its caller: the handler goes on with
\* `nftMetadata.tier || 'Bronze'`, the metadata endpoint answers 200.
MetadataReturned(p, tier) ==
  IF call[p].op = "record"
    THEN /\ pc' = [pc EXCEPT ![p] = "h_finish"]
         /\ lv' = [lv EXCEPT ![p].nftTier = tier]
         /\ UNCHANGED resp
    ELSE Respond(p, [NoResp EXCEPT !.status = 200, !.tier = tier])

\* updateNFTFrame, lines 111-153: without an NFT the handler answers 404
\* 'NFT Not Found'; with one it builds the new metadata, uploads it to IPFS
\* (a failing upload lands in the catch: 500) and goes on to
\* updateNFTMetadata.
FrameDecided(p, exists) ==
  IF ~exists
    THEN Respond(p, Failure(404, "NFT Not Found", "none"))
    ELSE \E uploaded \in BOOLEAN :
           IF uploaded
             THEN /\ pc' = [pc EXCEPT ![p] = "w_call"]
                  /\ UNCHANGED <<lv, resp>>
             ELSE Respond(p, Failure(500, "Blockchain Error", "ipfs"))

\* getNFTMetadata hands { tier, exists, ... } to whoever called it.
MetadataHandedOver(p, tier, exists) ==
  IF call[p].op = "update-nft-frame"
    THEN FrameDecided(p, exists)
    ELSE MetadataReturned(p, tier)

\* getNFTMetadata, lines 48-53.
NM_CacheGet(p) ==
  /\ pc[p] = "nm_get"
  /\ LET key == NFTKey(call[p].addr) IN
     \E ok \in CacheOutcomes :
       LET got == getCachedData(cache, key, ok) IN
       IF got.threw
         THEN ReadThrows(p, "nm_cache")
         ELSE IF got.hit
           THEN /\ MetadataHandedOver(p, got.data.v.tier, got.data.v.exists)
                /\ UNCHANGED <<txn, store>>
           ELSE /\ pc' = [pc EXCEPT ![p] = "nm_chain"]
                /\ UNCHANGED <<lv, resp, txn, store>>
  /\ UNCHANGED <<chainVars, redisClient, redisFaults, notifyFaults, users, cache, unreadWrite,
                 filled, calls, call, hist>>

\* Lines 55-67: contract.getNFTMetadata.
NM_ChainRead(p) ==
  /\ pc[p] = "nm_chain"
  /\ \E ok \in BOOLEAN :
       IF ok
         THEN /\ lv' = [lv EXCEPT ![p].nftTier = chainNFT[call[p].addr].tier,
                                  ![p].nftExists = chainNFT[call[p].addr].exists]
              /\ pc' = [pc EXCEPT ![p] = "nm_set"]
              /\ UNCHANGED <<resp, txn, store>>
         ELSE ReadThrows(p, "nm_chain")
  /\ UNCHANGED <<chainVars, redisClient, redisFaults, notifyFaults, users, cache, unreadWrite,
                 filled, calls, call, hist>>

\* Lines 69-72: cacheData(cacheKey, transformedMetadata), then return it.
NM_CacheSet(p) ==
  /\ pc[p] = "nm_set"
  /\ LET key == NFTKey(call[p].addr) IN
     \E ok \in CacheOutcomes :
       /\ cache' = cacheData(cache, key,
                             ObjectPayload([tier |-> lv[p].nftTier,
                                            exists |-> lv[p].nftExists]), ok)
  /\ MetadataHandedOver(p, lv[p].nftTier, lv[p].nftExists)
  /\ UNCHANGED <<chainVars, redisClient, redisFaults, notifyFaults, users, unreadWrite, filled, store, calls,
                 call, txn, hist>>

\* signRedeemPackage, lines 272-280, and the controller's answer:
\* generateEIP712Signature encodes the typed data; it may throw.
SR_Sign(p) ==
  /\ pc[p] = "sr_sign"
  /\ \E ok \in BOOLEAN :
       IF ok
         THEN /\ hist' = [hist EXCEPT ![p].signatures = @ + 1]
              /\ Respond(p, [NoResp EXCEPT !.status = 200, !.signature = TRUE])
         ELSE /\ Respond(p, Failure(400, "Signature Error", "sign"))
              /\ UNCHANGED hist
  /\ UNCHANGED <<chainVars, redisClient, redisFaults, notifyFaults, users, cache, unreadWrite, filled,
                 store, calls, call, txn>>

-----------------------------------------------------------------------------
(* add-user with its fire-and-forget mint, and update-nft-frame *)

\* addUser, lines 13-22: an address that has a User document already is
\* refused with 400.
AU_Begin(p) ==
  /\ pc[p] = "au_begin"
  /\ IF UserExists(call[p].addr)
       THEN Respond(p, Failure(400, "User Exists", "none"))
       ELSE /\ pc' = [pc EXCEPT ![p] = "au_save"]
            /\ UNCHANGED <<lv, resp>>
  /\ UNCHANGED <<chainVars, redisClient, redisFaults, notifyFaults, users, cache,
                 unreadWrite, filled, store, calls, call, txn, hist>>

\* addUser, lines 24-102: the metadata is uploaded to IPFS and the User
\* document saved (a failure of either lands in the catch: 500); then
\* mintLoyaltyNFT is called without await and the handler answers 201 while
\* the mint is under way.
AU_Save(p) ==
  /\ pc[p] = "au_save"
  /\ \E ok \in BOOLEAN :
       IF ok
         THEN /\ users' = users \cup {call[p].addr}
              /\ resp' = [resp EXCEPT ![p] = [NoResp EXCEPT !.status = 201]]
              /\ pc' = [pc EXCEPT ![p] = "au_mint"]
              /\ UNCHANGED lv
         ELSE /\ Respond(p, Failure(500, "Internal Server Error", "userSave"))
              /\ UNCHANGED users
  /\ UNCHANGED <<chainVars, redisClient, redisFaults, notifyFaults, cache,
                 unreadWrite, filled, store, calls, call, txn, hist>>

\* mintLoyaltyNFT, lines 171-198, and the .then/.catch of addUser (74-87):
\* contract.call('mintLoyaltyNFT') mints the NFT, or fails; either way the
\* outcome is logged and nothing else is done. No cache key is invalidated.
AU_Mint(p) ==
  /\ pc[p] = "au_mint"
  /\ \E ok \in BOOLEAN :
       /\ chainNFT' = IF ok
                        THEN [chainNFT EXCEPT ![call[p].addr] =
                                [tier |-> "Bronze", exists |-> TRUE]]
                        ELSE chainNFT
       /\ hist' = [hist EXCEPT ![p].chainWrite = IF ok THEN "ok" ELSE "failed"]
  /\ pc' = [pc EXCEPT ![p] = "done"]
  /\ UNCHANGED <<chainPoints, chainAdmins, chainTxs, chainWash, chainNow, redisClient,
                 redisFaults, notifyFaults, users, cache, unreadWrite, filled, store,
                 calls, call, txn, lv, resp>>

\* updateNFTFrame, lines 93-105: the user is looked up (404 when there is
\* none); then the points are read.
UF_Begin(p) ==
  /\ pc[p] = "uf_begin"
  /\ IF ~UserExists(call[p].addr)
       THEN Respond(p, Failure(404, "User Not Found", "none"))
       ELSE /\ pc' = [pc EXCEPT ![p] = "gp_get"]
            /\ UNCHANGED <<lv, resp>>
  /\ UNCHANGED <<chainVars, redisClient, redisFaults, notifyFaults, users, cache,
                 unreadWrite, filled, store, calls, call, txn, hist>>

-----------------------------------------------------------------------------
(* getActivityLog: read-through, one cache entry per page *)

\* The events the Chain holds for a user, oldest first: one per recorded
\* transaction, stamped with its place in the Chain's history.
RECURSIVE EventsUpTo(_, _)
EventsUpTo(a, n) ==
  IF n = 0 THEN <<>>
  ELSE EventsUpTo(a, n - 1)
         \o (IF \E t \in chainTxs : t.hash = n /\ t.addr = a
               THEN <<[user |-> a, timestamp |-> n]>> ELSE <<>>)

ChainActivityLog(a) == EventsUpTo(a, Epoch)

\* contract.getActivityLog(user, index, size): the index-th page of size
\* events (index counted from 0).
ChainPage(a, index, size) ==
  LET log == ChainActivityLog(a)
      first == index * size + 1
      last == IF (index + 1) * size < Len(log) THEN (index + 1) * size ELSE Len(log)
  IN SubSeq(log, first, last)

\* getActivityLog returned to the endpoint, which answers 200 with the logs.
LogsReturned(p, logs) ==
  Respond(p, [NoResp EXCEPT !.status = 200, !.logs = logs])

\* getActivityLog, lines 405-410: the key is built from the address, the
\* page and the page size, and looked up.
AL_CacheGet(p) ==
  /\ pc[p] = "al_get"
  /\ LET key == ActivityKey(call[p].addr, call[p].arg.page, call[p].arg.pageSize) IN
     \E ok \in CacheOutcomes :
       LET got == getCachedData(cache, key, ok) IN
       IF got.hit
         THEN /\ hist' = [hist EXCEPT ![p].logsFrom = "cache"]
              /\ LogsReturned(p, got.data.v)
         ELSE /\ pc' = [pc EXCEPT ![p] = "al_chain"]
              /\ lv' = [lv EXCEPT ![p].cacheKey = key]
              /\ UNCHANGED <<resp, hist>>
  /\ UNCHANGED <<chainVars, redisClient, redisFaults, notifyFaults, users, cache, unreadWrite,
                 filled, store, calls, call, txn>>

\* Lines 413-422: contract.getActivityLog(userAddress, page - 1, pageSize),
\* each log mapped to a plain object with a numeric timestamp.
AL_ChainRead(p) ==
  /\ pc[p] = "al_chain"
  /\ LET index == call[p].arg.page - 1
         size == call[p].arg.pageSize IN
     \E ok \in BOOLEAN :
       IF ok
         THEN /\ lv' = [lv EXCEPT ![p].logs =
                          [i \in DOMAIN ChainPage(call[p].addr, index, size) |->
                             [user |-> ChainPage(call[p].addr, index, size)[i].user,
                              timestamp |-> NumberOfBigNumber(
                                 ChainPage(call[p].addr, index, size)[i].timestamp)]]]
              /\ hist' = [hist EXCEPT ![p].logsFrom = "chain",
                                      ![p].askedIndex = index,
                                      ![p].askedSize = size]
              /\ pc' = [pc EXCEPT ![p] = "al_set"]
              /\ UNCHANGED resp
         ELSE /\ Respond(p, Failure(500, "Blockchain Error", "al_chain"))
              /\ UNCHANGED hist
  /\ UNCHANGED <<chainVars, redisClient, redisFaults, notifyFaults, users, cache, unreadWrite,
                 filled, store, calls, call, txn>>

\* Lines 424-427: cacheData(cacheKey, transformedLogs), then return them.
AL_CacheSet(p) ==
  /\ pc[p] = "al_set"
  /\ \E ok \in CacheOutcomes :
       cache' = cacheData(cache, lv[p].cacheKey, LogsPayload(lv[p].logs), ok)
  /\ LogsReturned(p, lv[p].logs)
  /\ UNCHANGED <<chainVars, redisClient, redisFaults, notifyFaults, users, unreadWrite,
                 filled, store, calls, call, txn, hist>>

-----------------------------------------------------------------------------
(* getFreeWashStatus and the free-wash status endpoint *)

\* getFreeWashStatusHandler, line 72: `status.available && !status.used`.
FreeWashActive(status) == status.available /\ ~status.used

\* getFreeWashStatus returned `status`: the endpoint answers 200 with
\* { active, expiryTime, used }.
WashReturned(p, status) ==
  Respond(p, [NoResp EXCEPT !.status = 200,
                            !.active = FreeWashActive(status),
                            !.expiryTime = status.expiryTime,
                            !.used = status.used])

\* getFreeWashStatus, lines 207-213: the cache is asked first.
FW_CacheGet(p) ==
  /\ pc[p] = "fw_get"
  /\ LET key == FreeWashKey(call[p].addr) IN
     \E ok \in CacheOutcomes :
       LET got == getCachedData(cache, key, ok) IN
       IF got.threw
         THEN Respond(p, Failure(500, "Blockchain Error", "fw_cache"))
         ELSE IF got.hit
           THEN WashReturned(p, got.data.v)
           ELSE /\ pc' = [pc EXCEPT ![p] = "fw_chain"]
                /\ UNCHANGED <<lv, resp>>
  /\ UNCHANGED <<chainVars, redisClient, redisFaults, notifyFaults, users, cache, unreadWrite,
                 filled, store, calls, call, txn, hist>>

\* Lines 215-224: contract.getFreeWashStatus, expiryTime converted from
\* BigNumber.
FW_ChainRead(p) ==
  /\ pc[p] = "fw_chain"
  /\ LET coupon == chainWash[call[p].addr] IN
     \E ok \in BOOLEAN :
       IF ok
         THEN /\ lv' = [lv EXCEPT ![p].status =
                          [available |-> coupon.available,
                           expiryTime |-> NumberOfBigNumber(coupon.expiryTime),
                           used |-> coupon.used]]
              /\ pc' = [pc EXCEPT ![p] = "fw_set"]
              /\ UNCHANGED resp
         ELSE Respond(p, Failure(500, "Blockchain Error", "fw_chain"))
  /\ UNCHANGED <<chainVars, redisClient, redisFaults, notifyFaults, users, cache, unreadWrite,
                 filled, store, calls, call, txn, hist>>

\* Lines 226-229: cacheData(cacheKey, transformedStatus), then return it.
FW_CacheSet(p) ==
  /\ pc[p] = "fw_set"
  /\ LET key == FreeWashKey(call[p].addr) IN
     \E ok \in CacheOutcomes :
       /\ cache' = cacheData(cache, key, ObjectPayload(lv[p].status), ok)
  /\ WashReturned(p, lv[p].status)
  /\ UNCHANGED <<chainVars, redisClient, redisFaults, notifyFaults, users, unreadWrite, filled, store, calls,
                 call, txn, hist>>

-----------------------------------------------------------------------------
(* isAdmin, the checkAdmin middleware and the admin routes *)

\* adminsList.some(admin => admin.toLowerCase() === address.toLowerCase())
Some(list, address) ==
  \E i \in 1 .. Len(list) : toLowerCase(list[i]) = toLowerCase(address)

\* A list that would leave the owner out.
WithoutOwner(list, owner) == list

\* [...adminsList, owner]
WithOwner(list, owner) == Append(list, owner)

\* The arrays that hold the members of S, each once.
ListsOf(S) ==
  {l \in [1 .. Cardinality(S) -> S] : \A i, j \in DOMAIN l : l[i] = l[j] => i = j}

\* The address isAdmin is called with. checkAdmin takes
\* req.body.adminAddress || req.query.adminAddress || req.body.callerAddress
\* || req.query.callerAddress: the address the body names to be added or
\* removed, and the caller's only when the body names none.
CheckedAddress(c) ==
  IF c.arg.named THEN Spelling(c.addr, c.arg.casing)
  ELSE Spelling(c.arg.caller, c.arg.casing)

IsAdminRoute(o) == o \in {"add-admin", "remove-admin"}

\* checkAdmin up to its call of isAdmin: 401 without the API key, 400 when
\* the request gives no address at all.
CA_Begin(p) ==
  /\ pc[p] = "ca_begin"
  /\ LET q == call[p].arg IN
     IF ~q.apiKey
       THEN Respond(p, Failure(401, "Unauthorized", "apiKey"))
       ELSE IF ~q.named /\ q.caller = NULL
         THEN Respond(p, Failure(400, "Bad Request", "address"))
         ELSE /\ pc' = [pc EXCEPT ![p] = "ia_get"]
              /\ UNCHANGED <<resp, lv>>
  /\ UNCHANGED <<chainVars, redisClient, redisFaults, notifyFaults, users, cache, unreadWrite, filled,
                 store, calls, call, txn, hist>>

\* isAdmin threw: the service rethrows, checkAdmin's catch answers 500.
AdminThrows(p, at) ==
  /\ Respond(p, Failure(500, IF IsAdminRoute(call[p].op) THEN "Internal Server Error"
                              ELSE "Blockchain Error", at))
  /\ UNCHANGED hist

\* isAdmin has its list and returns some(...). Called directly, that is the
\* answer. In checkAdmin, false answers 403; true calls next(): the
\* validation (adminAddress is required) and then the handler, which calls
\* addAdmin / removeAdmin with req.body.adminAddress.
\* History: where the list came from, and what the same list says about the
\* caller's own address.
AdminDecided(p, list, from) ==
  LET c == call[p]
      result == Some(list, CheckedAddress(c)) IN
  /\ hist' = [hist EXCEPT ![p].adminsFrom = from,
                          ![p].callerAdmin = /\ c.arg.caller # NULL
                                             /\ Some(list, Spelling(c.arg.caller, c.arg.casing))]
  /\ IF c.op = "isAdmin"
       THEN Respond(p, [NoResp EXCEPT !.status = 200, !.admin = result])
       ELSE IF ~result
         THEN Respond(p, Failure(403, "Forbidden", "isAdmin"))
         ELSE IF ~c.arg.named
           THEN Respond(p, Failure(400, "Validation Error", "validate"))
           ELSE /\ pc' = [pc EXCEPT ![p] = "w_call"]
                /\ lv' = [lv EXCEPT ![p] = NoLocals]
                /\ UNCHANGED resp

\* Lines 297-301: the cached list, if there is one (an array is never falsy).
IA_CacheGet(p) ==
  /\ pc[p] = "ia_get"
  /\ \E ok \in CacheOutcomes :
       LET r == getCachedData(cache, AdminsKey, ok) IN
       IF r.hit
         THEN AdminDecided(p, r.data.v, "cache")
         ELSE /\ pc' = [pc EXCEPT ![p] = "ia_admins"]
              /\ UNCHANGED <<resp, lv, hist>>
  /\ UNCHANGED <<chainVars, redisClient, redisFaults, notifyFaults, users, cache, unreadWrite, filled,
                 store, calls, call, txn>>

\* Lines 302-304: contract.getAdmins(), the raw list in the contract's order.
IA_GetAdmins(p) ==
  /\ pc[p] = "ia_admins"
  /\ \E ok \in BOOLEAN :
       IF ok
         THEN /\ \E l \in ListsOf(chainAdmins) :
                   lv' = [lv EXCEPT ![p].adminsList =
                            [i \in DOMAIN l |-> ChainSpelling(l[i])]]
              /\ hist' = [hist EXCEPT ![p].rawAdmins = chainAdmins]
              /\ pc' = [pc EXCEPT ![p] = "ia_owner"]
              /\ UNCHANGED resp
         ELSE AdminThrows(p, "getAdmins")
  /\ UNCHANGED <<chainVars, redisClient, redisFaults, notifyFaults, users, cache, unreadWrite, filled,
                 store, calls, call, txn>>

\* Lines 306-310: contract.owner(), appended to the list.
IA_Owner(p) ==
  /\ pc[p] = "ia_owner"
  /\ \E ok \in BOOLEAN :
       IF ok
         THEN /\ lv' = [lv EXCEPT ![p].adminsList = WithOwner(@, ChainSpelling(Owner))]
              /\ pc' = [pc EXCEPT ![p] = "ia_set"]
              /\ UNCHANGED <<resp, hist>>
         ELSE AdminThrows(p, "owner")
  /\ UNCHANGED <<chainVars, redisClient, redisFaults, notifyFaults, users, cache, unreadWrite, filled,
                 store, calls, call, txn>>

\* Lines 312-317: cacheData(cacheKey, adminsList), then the membership test.
IA_CacheSet(p) ==
  /\ pc[p] = "ia_set"
  /\ \E ok \in CacheOutcomes :
       cache' = cacheData(cache, AdminsKey, ArrayPayload(lv[p].adminsList), ok)
  /\ AdminDecided(p, lv[p].adminsList, "chain")
  /\ UNCHANGED <<chainVars, redisClient, redisFaults, notifyFaults, users, unreadWrite, filled,
                 store, calls, call, txn>>

-----------------------------------------------------------------------------
(* The rest of the record-transaction handler *)

\* `nftMetadata.tier || 'Bronze'`
CurrentTier(tier) == IF tier = "" THEN "Bronze" ELSE tier

\* A handler that would never see a tier change.
TierNeverChanged(newTier, currentTier) == FALSE

\* Line 79 and line 114: has the tier changed?
TierChanged(newTier, currentTier) == newTier # currentTier

\* What the handler answers after its broadcasts (lines 100-147). When
\* io.emit returns, 200 with the transaction hash. io.emit is called inside
\* the inner try: when it throws, the inner catch calls
\* session.abortTransaction() on a session that has committed and ended.
\* What that call does is the driver's affair: if it resolves, the inner
\* catch answers 500 Blockchain Error; if it rejects, the outer catch makes
\* the same call and answers 500 Internal Server Error, or the call rejects
\* again and the request is never answered (status 0).
EmitAnswers(p, ok) ==
  IF ok
    THEN {[NoResp EXCEPT !.status = 200, !.txHash = lv[p].txHash,
                         !.points = lv[p].points, !.tier = lv[p].newTier]}
    ELSE {Failure(500, "Blockchain Error", "emit"),
          Failure(500, "Internal Server Error", "emit"),
          [NoResp EXCEPT !.failedAt = "emit"]}

\* The calls made on the session by the end of the handler: commit and end
\* (lines 97-98); after a throwing emit, the inner catch's abortTransaction
\* and, if that resolved, endSession (134-135); if it rejected, the outer
\* catch's abortTransaction and, if that one resolved, endSession (151-152).
SessionCalls(answer) ==
  <<"commitTransaction", "endSession">>
    \o (CASE answer.status = 200 -> <<>>
          [] answer.error = "Blockchain Error" -> <<"abortTransaction", "endSession">>
          [] answer.error = "Internal Server Error" ->
               <<"abortTransaction", "abortTransaction", "endSession">>
          [] OTHER -> <<"abortTransaction", "abortTransaction">>)

\* Lines 76-130: the prior tier is read off the metadata; when the tiers
\* differ the admin is told by e-mail (a failure is logged and ignored); the
\* session commits and ends; transaction:recorded is broadcast, and
\* tier:upgraded when the tiers differ; the handler answers.
H_Finish(p) ==
  /\ pc[p] = "h_finish"
  /\ LET currentTier == CurrentTier(lv[p].nftTier)
         changed == TierChanged(lv[p].newTier, currentTier) IN
     \E mailed \in NotifyOutcomes, emitted \in NotifyOutcomes :
       /\ ~changed => mailed
       /\ ~IoAttached => emitted
       /\ store' = CommitTransaction(store, txn[p], call[p])
       /\ hist' = [hist EXCEPT
                     ![p].tierMails = @ + (IF changed THEN 1 ELSE 0),
                     ![p].txCasts = @ + (IF IoAttached /\ emitted THEN 1 ELSE 0),
                     ![p].tierCasts = @ + (IF IoAttached /\ changed /\ emitted THEN 1 ELSE 0),
                     ![p].lost = @ \cup (IF mailed THEN {} ELSE {"tierMail"})
                                   \cup (IF emitted THEN {} ELSE {"emit"}),
                     ![p].early = @ \cup (IF changed THEN EarlyMail(p, "tierMail") ELSE {})
                                    \cup (IF txn[p].open /\ hist[p].pointsFrom # "none"
                                            THEN {<<"points re-read", "commit">>} ELSE {})]
       /\ \E answer \in EmitAnswers(p, emitted) :
            /\ Respond(p, answer)
            /\ txn' = [txn EXCEPT ![p] = Finished(SessionCalls(answer))]
  /\ UNCHANGED <<chainVars, redisClient, redisFaults, notifyFaults, users, cache, unreadWrite,
                 filled, calls, call>>

-----------------------------------------------------------------------------
(* Redis on its own *)

\* An entry stored without a time to live (redis.set instead of setEx).
Persist(k) == FALSE

\* The TTL of an entry runs out, or allkeys-lru evicts it.
Expire(k) ==
  /\ cache[k].present
  /\ cache' = [cache EXCEPT ![k] = Absent]
  /\ filled' = Forget(filled, cache, cache')
  /\ UNCHANGED <<chainVars, redisClient, redisFaults, notifyFaults, users, unreadWrite, store, calls, pc, call, txn,
                 lv, resp, hist>>

-----------------------------------------------------------------------------
(* The API: record-transaction requests and points reads *)

Arrive(p) == Start(p, {"record", "points"})

Next ==
  \/ \E p \in Procs : Arrive(p)
  \/ \E p \in Procs : H_Begin(p)
  \/ \E p \in Procs : W_ChainCall(p)
  \/ \E p \in Procs : W_Invalidate(p)
  \/ \E p \in Procs : H_Confirm(p)
  \/ \E p \in Procs : GP_CacheGet(p)
  \/ \E p \in Procs : GP_ChainRead(p)
  \/ \E p \in Procs : GP_CacheSet(p)
  \/ \E p \in Procs : NM_CacheGet(p)
  \/ \E p \in Procs : NM_ChainRead(p)
  \/ \E p \in Procs : NM_CacheSet(p)
  \/ \E p \in Procs : H_Finish(p)
  \/ \E k \in Keys : Expire(k)

Spec == Init /\ [][Next]_vars

-----------------------------------------------------------------------------
(* The gateway on its own: its reads and writes called directly *)

GatewayOps == {"points", "metadata", "recordTx", "updateNFT", "addAdmin", "removeAdmin"}
GatewayPoints == {0, 950}

ArriveGateway(p) == Start(p, GatewayOps)

InitGateway == InitWith(Balances(GatewayPoints), Unreliable)

NextGateway ==
  \/ \E p \in Procs : ArriveGateway(p)
  \/ \E p \in Procs : W_ChainCall(p)
  \/ \E p \in Procs : W_Invalidate(p)
  \/ \E p \in Procs : GP_CacheGet(p)
  \/ \E p \in Procs : GP_ChainRead(p)
  \/ \E p \in Procs : GP_CacheSet(p)
  \/ \E p \in Procs : NM_CacheGet(p)
  \/ \E p \in Procs : NM_ChainRead(p)
  \/ \E p \in Procs : NM_CacheSet(p)
  \/ \E k \in Keys : Expire(k)

SpecGateway == InitGateway /\ [][NextGateway]_vars

-----------------------------------------------------------------------------
(* Record-transaction requests alone, on a Redis whose commands all resolve *)

ArriveRecord(p) == Start(p, {"record"})

InitPair == InitWith(Balances(InitialPoints), Steady)

NextPair ==
  \/ \E p \in Procs : ArriveRecord(p)
  \/ \E p \in Procs : H_Begin(p)
  \/ \E p \in Procs : W_ChainCall(p)
  \/ \E p \in Procs : W_Invalidate(p)
  \/ \E p \in Procs : H_Confirm(p)
  \/ \E p \in Procs : GP_CacheGet(p)
  \/ \E p \in Procs : GP_ChainRead(p)
  \/ \E p \in Procs : GP_CacheSet(p)
  \/ \E p \in Procs : NM_CacheGet(p)
  \/ \E p \in Procs : NM_ChainRead(p)
  \/ \E p \in Procs : NM_CacheSet(p)
  \/ \E p \in Procs : H_Finish(p)
  \/ \E k \in Keys : Expire(k)

SpecPair == InitPair /\ [][NextPair]_vars

-----------------------------------------------------------------------------
(* Record-transaction requests one after the other, over a range of balances *)

\* Bound: how far around 0 and around each tier threshold the starting
\* balances reach.
TierWindow == 60

TierPoints ==
  (0 .. TierWindow)
    \cup ((SilverThreshold - TierWindow) .. (SilverThreshold + TierWindow))
    \cup ((GoldThreshold - TierWindow) .. (GoldThreshold + TierWindow))

ArriveSerial(p) == p = "p1" /\ Start(p, {"record"})

InitSerial == InitWith(Balances(TierPoints), Steady)

NextSerial ==
  \/ \E p \in Procs : ArriveSerial(p)
  \/ \E p \in Procs : H_Begin(p)
  \/ \E p \in Procs : W_ChainCall(p)
  \/ \E p \in Procs : W_Invalidate(p)
  \/ \E p \in Procs : H_Confirm(p)
  \/ \E p \in Procs : GP_CacheGet(p)
  \/ \E p \in Procs : GP_ChainRead(p)
  \/ \E p \in Procs : GP_CacheSet(p)
  \/ \E p \in Procs : NM_CacheGet(p)
  \/ \E p \in Procs : NM_ChainRead(p)
  \/ \E p \in Procs : NM_CacheSet(p)
  \/ \E p \in Procs : H_Finish(p)
  \/ \E k \in Keys : Expire(k)

SpecSerial == InitSerial /\ [][NextSerial]_vars

-----------------------------------------------------------------------------
(* The free-wash status endpoint, beside the gateway's recordTransaction *)

\* Bound: how far the clock runs.
MaxTime == 2

\* Time passes.
Tick ==
  /\ chainNow < MaxTime
  /\ chainNow' = chainNow + 1
  /\ UNCHANGED <<chainPoints, chainNFT, chainAdmins, chainTxs, chainWash, redisClient,
                 redisFaults, notifyFaults, users, cache, unreadWrite, filled, store, calls, pc, call, txn, lv,
                 resp, hist>>

\* The coupons the Chain may hold for the registered user: granted or not,
\* used or not, expiring at any time the clock reaches, or later.
Coupons ==
  {[a \in Addrs |-> IF a \in RegisteredUsers THEN c ELSE NoCoupon] :
     c \in [available : BOOLEAN, used : BOOLEAN, expiryTime : 1 .. (MaxTime + 1)]}

ArriveWash(p) == Start(p, {"washStatus", "recordTx"})

InitWash == InitChainWith(Balances(InitialPoints), Coupons, Unreliable)

NextWash ==
  \/ \E p \in Procs : ArriveWash(p)
  \/ \E p \in Procs : W_ChainCall(p)
  \/ \E p \in Procs : W_Invalidate(p)
  \/ \E p \in Procs : FW_CacheGet(p)
  \/ \E p \in Procs : FW_ChainRead(p)
  \/ \E p \in Procs : FW_CacheSet(p)
  \/ \E k \in Keys : Expire(k)
  \/ Tick

SpecWash == InitWash /\ [][NextWash]_vars

-----------------------------------------------------------------------------
(* The gateway over balances around 2^53 *)

WidePoints == (TwoTo53 - 2) .. (TwoTo53 + 4)

InitWide == InitWith(Balances(WidePoints), Unreliable)

SpecWide == InitWide /\ [][NextGateway]_vars

-----------------------------------------------------------------------------
(* isAdmin and the admin routes *)

AdminSets == SUBSET Addrs

\* isAdmin called directly, beside the gateway's addAdmin and removeAdmin.
ArriveAdmin(p) == Start(p, {"isAdmin", "addAdmin", "removeAdmin"})

InitAdmins == InitAll(Balances(InitialPoints), NoCoupons, AdminSets, Unreliable)

NextAdmins ==
  \/ \E p \in Procs :
       \/ ArriveAdmin(p)
       \/ IA_CacheGet(p)
       \/ IA_GetAdmins(p)
       \/ IA_Owner(p)
       \/ IA_CacheSet(p)
       \/ W_ChainCall(p)
       \/ W_Invalidate(p)
  \/ Expire(AdminsKey)

SpecAdmins == InitAdmins /\ [][NextAdmins]_vars

\* Requests to the admin routes, one after the other, on a Redis whose
\* commands all resolve.
ArriveRoute(p) == p = "p1" /\ Start(p, {"add-admin", "remove-admin"})

InitRoutes == InitAll(Balances(InitialPoints), NoCoupons, AdminSets, Steady)

NextRoutes ==
  \/ \E p \in Procs :
       \/ ArriveRoute(p)
       \/ CA_Begin(p)
       \/ IA_CacheGet(p)
       \/ IA_GetAdmins(p)
       \/ IA_Owner(p)
       \/ IA_CacheSet(p)
       \/ W_ChainCall(p)
       \/ W_Invalidate(p)
  \/ Expire(AdminsKey)

SpecRoutes == InitRoutes /\ [][NextRoutes]_vars

-----------------------------------------------------------------------------
(* Redemption signatures, beside the gateway's recordTransaction *)

\* Balances at each package's price and just below it.
RedeemPoints ==
  UNION {{t - 1, t} : t \in {BasicPoints, PremiumPoints, DeluxePoints}}

ArriveRedeem(p) == Start(p, {"signRedeem", "recordTx"})

InitRedeem == InitWith(Balances(RedeemPoints), Unreliable)

NextRedeem ==
  \/ \E p \in Procs :
       \/ ArriveRedeem(p)
       \/ GP_CacheGet(p)
       \/ GP_ChainRead(p)
       \/ GP_CacheSet(p)
       \/ SR_Sign(p)
       \/ W_ChainCall(p)
       \/ W_Invalidate(p)
  \/ \E k \in Keys : Expire(k)

SpecRedeem == InitRedeem /\ [][NextRedeem]_vars

-----------------------------------------------------------------------------
(* Record-transaction requests while e-mails and broadcasts may fail *)

MayFail == {TRUE}

InitNotify == InitEnv(Balances(InitialPoints), NoCoupons, NoAdmins, Steady, MayFail)

SpecNotify == InitNotify /\ [][NextPair]_vars

-----------------------------------------------------------------------------
(* The gateway called by one caller at a time *)

ArriveAlone(p) == p = "p1" /\ Start(p, GatewayOps)

NextAlone ==
  \/ \E p \in Procs :
       \/ ArriveAlone(p)
       \/ W_ChainCall(p)
       \/ W_Invalidate(p)
       \/ GP_CacheGet(p)
       \/ GP_ChainRead(p)
       \/ GP_CacheSet(p)
       \/ NM_CacheGet(p)
       \/ NM_ChainRead(p)
       \/ NM_CacheSet(p)
  \/ \E k \in Keys : Expire(k)

SpecAlone == InitGateway /\ [][NextAlone]_vars

-----------------------------------------------------------------------------
(* isAdmin, addAdmin and removeAdmin called by one caller at a time *)

\* The list an earlier isAdmin has stored under the admins key.
CachedAdminLists(admins) ==
  {Stored(JSONStringify(ArrayPayload(
     WithOwner([i \in DOMAIN l |-> ChainSpelling(l[i])], ChainSpelling(Owner))))) :
     l \in ListsOf(admins)}

\* The process has run for a while: the admins key is empty, or holds the
\* list isAdmin read from the Chain.
WarmAdmins == Cold \cup {<<AdminsKey, e>> : e \in CachedAdminLists(chainAdmins)}

InitAdminsAlone ==
  InitCached(Balances(InitialPoints), NoCoupons, AdminSets, Unreliable, Delivering,
             WarmAdmins)

ArriveAdminAlone(p) == p = "p1" /\ Start(p, {"isAdmin", "addAdmin", "removeAdmin"})

NextAdminsAlone ==
  \/ \E p \in Procs :
       \/ ArriveAdminAlone(p)
       \/ IA_CacheGet(p)
       \/ IA_GetAdmins(p)
       \/ IA_Owner(p)
       \/ IA_CacheSet(p)
       \/ W_ChainCall(p)
       \/ W_Invalidate(p)
  \/ Expire(AdminsKey)

SpecAdminsAlone == InitAdminsAlone /\ [][NextAdminsAlone]_vars

-----------------------------------------------------------------------------
(* updateNFTMetadata and getNFTMetadata called by one caller at a time *)

\* The process has run for a while: the cache is empty, or holds under the
\* registered user's NFT key the metadata getNFTMetadata read from the Chain.
WarmNFT ==
  Cold \cup {<<NFTKey(a), Stored(JSONStringify(ObjectPayload(chainNFT[a])))>> :
               a \in RegisteredUsers}

InitNFTAlone ==
  InitCached(Balances(InitialPoints), NoCoupons, NoAdmins, Unreliable, Delivering,
             WarmNFT)

ArriveNFTAlone(p) == p = "p1" /\ Start(p, {"updateNFT", "metadata"})

NextNFTAlone ==
  \/ \E p \in Procs :
       \/ ArriveNFTAlone(p)
       \/ NM_CacheGet(p)
       \/ NM_ChainRead(p)
       \/ NM_CacheSet(p)
       \/ W_ChainCall(p)
       \/ W_Invalidate(p)
  \/ \E k \in Keys : Expire(k)

SpecNFTAlone == InitNFTAlone /\ [][NextNFTAlone]_vars

-----------------------------------------------------------------------------
(* The activity log, beside the gateway's recordTransaction *)

ArriveLog(p) == Start(p, {"activityLog", "recordTx"})

InitLog == InitWith(Balances(InitialPoints), Unreliable)

NextLog ==
  \/ \E p \in Procs : ArriveLog(p)
  \/ \E p \in Procs : AL_CacheGet(p)
  \/ \E p \in Procs : AL_ChainRead(p)
  \/ \E p \in Procs : AL_CacheSet(p)
  \/ \E p \in Procs : W_ChainCall(p)
  \/ \E p \in Procs : W_Invalidate(p)
  \/ \E k \in Keys : Expire(k)

SpecLog == InitLog /\ [][NextLog]_vars

-----------------------------------------------------------------------------
(* recordTransaction and getActivityLog called by one caller at a time *)

\* The process has run for a while: the cache is empty, or holds the first
\* page of the registered user's activity log as getActivityLog read it from
\* the Chain (no event yet).
WarmLog ==
  Cold \cup {<<ActivityKey(a, 1, 11), Stored(JSONStringify(LogsPayload(<<>>)))>> :
               a \in RegisteredUsers}

InitLogAlone ==
  InitCached(Balances(InitialPoints), NoCoupons, NoAdmins, Steady, Delivering,
             WarmLog)

ArriveLogAlone(p) == p = "p1" /\ Start(p, {"activityLog", "recordTx"})

NextLogAlone ==
  \/ \E p \in Procs :
       \/ ArriveLogAlone(p)
       \/ AL_CacheGet(p)
       \/ AL_ChainRead(p)
       \/ AL_CacheSet(p)
       \/ W_ChainCall(p)
       \/ W_Invalidate(p)
  \/ \E k \in Keys : Expire(k)

SpecLogAlone == InitLogAlone /\ [][NextLogAlone]_vars

-----------------------------------------------------------------------------
(* Redemption signatures, with the redemptions themselves *)

\* The user redeems a package on the Chain with a signature obtained
\* earlier: the contract takes the package's price off the balance and emits
\* PackageRedeemed. The backend's listener (setupEventListeners) logs the
\* event, sends an e-mail and broadcasts package:redeemed; it touches no
\* cache key. Here a redemption happens between two requests.
PackageRedeemed(user) ==
  /\ \A p \in Procs : pc[p] \in {"idle", "done"}
  /\ \E packageType \in 1 .. 3 :
       /\ chainPoints[user] >= RequiredPoints(packageType)
       /\ chainPoints' = [chainPoints EXCEPT ![user] = @ - RequiredPoints(packageType)]
  /\ UNCHANGED <<chainNFT, chainAdmins, chainTxs, chainWash, chainNow, redisClient,
                 redisFaults, notifyFaults, users, cache, unreadWrite, filled, store, calls,
                 pc, call, txn, lv, resp, hist>>

ArriveRedemption(p) == p = "p1" /\ Start(p, {"signRedeem"})

InitRedemption == InitWith(Balances(RedeemPoints), Steady)

NextRedemption ==
  \/ \E p \in Procs :
       \/ ArriveRedemption(p)
       \/ GP_CacheGet(p)
       \/ GP_ChainRead(p)
       \/ GP_CacheSet(p)
       \/ SR_Sign(p)
  \/ \E user \in RegisteredUsers : PackageRedeemed(user)
  \/ \E k \in Keys : Expire(k)

SpecRedemption == InitRedemption /\ [][NextRedemption]_vars

-----------------------------------------------------------------------------
(* Registration: add-user and update-nft-frame, one request at a time *)

ArriveUser(p) == p = "p1" /\ Start(p, {"add-user", "update-nft-frame"})

InitUsers == InitWith(Balances(InitialPoints), Unreliable)

NextUsers ==
  \/ \E p \in Procs :
       \/ ArriveUser(p)
       \/ AU_Begin(p)
       \/ AU_Save(p)
       \/ AU_Mint(p)
       \/ UF_Begin(p)
       \/ GP_CacheGet(p)
       \/ GP_ChainRead(p)
       \/ GP_CacheSet(p)
       \/ NM_CacheGet(p)
       \/ NM_ChainRead(p)
       \/ NM_CacheSet(p)
       \/ W_ChainCall(p)
       \/ W_Invalidate(p)
  \/ \E k \in Keys : Expire(k)

\* The steps of a request that are bound to be taken: every await settles,
\* the mint's contract.call included (it succeeds or it fails).
UserStep(p) ==
  \/ AU_Begin(p) \/ AU_Save(p) \/ AU_Mint(p) \/ UF_Begin(p)
  \/ GP_CacheGet(p) \/ GP_ChainRead(p) \/ GP_CacheSet(p)
  \/ NM_CacheGet(p) \/ NM_ChainRead(p) \/ NM_CacheSet(p)
  \/ W_ChainCall(p) \/ W_Invalidate(p)

SpecUsers ==
  InitUsers /\ [][NextUsers]_vars /\ \A p \in Procs : WF_vars(UserStep(p))

-----------------------------------------------------------------------------
(* Scheduling *)

\* The steps of request p that the event loop runs once their await has
\* settled. Redis, MongoDB, the mail transport and the Chain's reads are taken
\* to answer; the Chain's answer to a write (W_ChainCall) is not: the handler
\* awaits contract.call with no timer beside it, so nothing in the program
\* makes that step happen.
ProgramStep(p) ==
  \/ H_Begin(p) \/ W_Invalidate(p) \/ H_Confirm(p)
  \/ GP_CacheGet(p) \/ GP_ChainRead(p) \/ GP_CacheSet(p)
  \/ NM_CacheGet(p) \/ NM_ChainRead(p) \/ NM_CacheSet(p)
  \/ H_Finish(p)

SpecLive == Init /\ [][Next]_vars /\ \A p \in Procs : WF_vars(ProgramStep(p))

-----------------------------------------------------------------------------
(* Properties *)

Returned(p) == pc[p] = "done"
InFlight(p) == pc[p] \notin {"idle", "done"}

\* The Transaction documents of the store that request p's attempt created.
RecordsOf(p) == {r \in store : r.attempt = call[p].id}

\* The points the cache holds for address a (entry present).
CachedPoints(a) == JSONParse(cache[PointsKey(a)].str).v

GatewayWrites == {"recordTx", "updateNFT", "addAdmin", "removeAdmin"}

\* C1 -- Write-invalidate: once recordTransaction(addr, t) has returned
\* success, the very next getUserPoints(addr) either goes on to read the
\* Chain or, if it answers from the cache, answers with the Chain's balance:
\* never with a value the Chain no longer holds.
C1_NextReadIsFresh ==
  [][\A p \in Procs :
       (pc[p] = "gp_get" /\ pc'[p] # "gp_get" /\ unreadWrite[call[p].addr])
         => \/ pc'[p] = "gp_chain"
            \/ (IF call[p].op = "record" THEN lv'[p].points ELSE resp'[p].points)
                  = chainPoints[call[p].addr]]_vars

\* C2 -- Two overlapping record-transaction requests for the same user: once
\* both have answered 200, a points value still cached for that user equals
\* the Chain's balance.
C2_NoStalePointsAfterBoth ==
  (\A p \in Procs : /\ Returned(p)
                    /\ call[p].op = "record"
                    /\ call[p].addr = "a1"
                    /\ resp[p].status = 200)
    => (cache[PointsKey("a1")].present => CachedPoints("a1") = chainPoints["a1"])

\* C3 -- Rollback atomicity: when the Chain's recordTransaction failed inside
\* the handler, the handler answered with a failure and the store shows no
\* Transaction document of that attempt.
C3_RollbackAtomicity ==
  \A p \in Procs :
    (Returned(p) /\ call[p].op = "record" /\ hist[p].chainWrite = "failed")
      => /\ resp[p].status = 500
         /\ RecordsOf(p) = {}

C3_Witness ==
  \E p \in Procs : /\ Returned(p)
                   /\ call[p].op = "record"
                   /\ hist[p].chainWrite = "failed"
                   /\ resp[p].failedAt = "chainWrite"

\* C4 -- Once the Chain write of a record-transaction request has succeeded
\* and the document was saved with the chain reference, the request ends
\* confirmed: it answers 200 and its document is committed with
\* recordedOnChain and the transaction hash, whatever the later reads,
\* e-mails and broadcasts do.
C4_ConfirmedDespiteLaterFailures ==
  \A p \in Procs :
    (/\ Returned(p)
     /\ call[p].op = "record"
     /\ hist[p].chainWrite = "ok"
     /\ resp[p].failedAt # "save2")
      => /\ resp[p].status = 200
         /\ \E r \in RecordsOf(p) : r.recordedOnChain /\ r.blockchainTxHash # 0

\* C5 -- Gateway writes: a write whose Chain call fails leaves every cache
\* key as it was and hands the failure to its caller; and no step of a
\* gateway write stores a value under a cache key (it may only delete).
C5_FailedWriteLeavesCache ==
  [][\A p \in Procs :
       (call[p].op \in GatewayWrites /\ pc[p] \in {"w_call", "w_inv"}
          /\ <<pc[p], lv[p]>> # <<pc'[p], lv'[p]>>)
         => /\ (hist'[p].chainWrite = "failed")
                 => /\ cache' = cache
                    /\ pc'[p] = "done"
                    /\ resp'[p].status = 500
            /\ \A k \in Keys : cache'[k] # cache[k] => ~cache'[k].present]_vars

C5_Witness ==
  \E p \in Procs : /\ Returned(p)
                   /\ call[p].op = "recordTx"
                   /\ hist[p].chainWrite = "failed"
                   /\ resp[p].status = 500
                   /\ cache[PointsKey(call[p].addr)].present

\* C6 -- Read-through idempotence: a getUserPoints that finds the entry a
\* previous getUserPoints stored (nothing deleted, expired or evicted since,
\* the cache answering) returns the value that previous call returned, without
\* calling the Chain -- whatever the balance, 0 included.
C6_ReadThroughIdempotence ==
  [][\A p \in Procs :
       (/\ call[p].op = "points"
        /\ pc[p] = "gp_get" /\ pc'[p] # "gp_get"
        /\ cache[PointsKey(call[p].addr)].present
        /\ ~hist'[p].forcedMiss)
         => /\ pc'[p] = "done"
            /\ resp'[p].status = 200
            /\ resp'[p].points = filled[call[p].addr]
            /\ hist'[p].pointsFrom = "cache"]_vars

C6_Witness ==
  \E p \in Procs : /\ Returned(p)
                   /\ call[p].op = "points"
                   /\ hist[p].pointsFrom = "cache"
                   /\ resp[p].status = 200
                   /\ resp[p].points = 0
                   /\ chainPoints[call[p].addr] = 0

\* C7 -- Cache-failure transparency: with Redis uninitialised, or its GET
\* rejected, getUserPoints fails only if the Chain read itself fails;
\* otherwise it answers with the value it read from the Chain. No cache
\* error reaches the caller.
C7_CacheFailureTransparent ==
  \A p \in Procs :
    (Returned(p) /\ call[p].op = "points" /\ (redisClient = NULL \/ hist[p].forcedMiss))
      => /\ resp[p].failedAt \in {"none", "gp_chain"}
         /\ resp[p].failedAt = "none"
              => /\ resp[p].status = 200
                 /\ hist[p].pointsFrom = "chain"
                 /\ resp[p].points = hist[p].chainValue

C7_Witness ==
  \E p \in Procs : /\ Returned(p)
                   /\ call[p].op = "points"
                   /\ redisClient = NULL
                   /\ resp[p].status = 200
                   /\ resp[p].points = chainPoints[call[p].addr]
                   /\ chainTxs # {}

\* C8 -- Never left pending: every Transaction document the store shows of an
\* attempt whose handler has returned carries recordedOnChain = true and a
\* transaction hash, and a handler that did not answer 200 left none.
C8_NeverLeftPending ==
  /\ \A r \in store :
       (\A q \in Procs : InFlight(q) => call[q].id # r.attempt)
         => r.recordedOnChain /\ r.blockchainTxHash # 0
  /\ \A p \in Procs :
       (Returned(p) /\ call[p].op = "record" /\ resp[p].status # 200)
         => RecordsOf(p) = {}

C8_Witness ==
  /\ \E p \in Procs : /\ Returned(p)
                      /\ call[p].op = "record"
                      /\ resp[p].status = 200
                      /\ RecordsOf(p) # {}
  /\ \E p \in Procs : /\ Returned(p)
                      /\ call[p].op = "record"
                      /\ hist[p].chainWrite = "ok"
                      /\ resp[p].status = 500

\* C9 -- Unknown user: the handler answers 404 User Not Found in its first
\* step and has touched nothing: the store, the Chain and the cache are as
\* they were, and nothing was mailed or broadcast.
C9_UserNotFoundNoEffects ==
  [][\A p \in Procs :
       (/\ call[p].op = "record"
        /\ pc[p] = "h_begin" /\ pc'[p] # "h_begin"
        /\ call[p].addr \notin RegisteredUsers)
         => /\ pc'[p] = "done"
            /\ resp'[p].status = 404
            /\ resp'[p].error = "User Not Found"
            /\ store' = store
            /\ cache' = cache
            /\ chainVars' = chainVars
            /\ hist'[p] = NoHist]_vars

C9_Witness ==
  \E p \in Procs : /\ Returned(p)
                   /\ call[p].op = "record"
                   /\ call[p].addr \notin RegisteredUsers
                   /\ resp[p].status = 404
                   /\ cache[PointsKey("a1")].present

\* C10 -- Tier transition: after a first transaction took the user from 950 to
\* 1010 points (Bronze to Silver) and was confirmed, a second, later
\* transaction that awards nothing and leaves the points at 1010 sends no
\* tier-change e-mail and no tier-change broadcast.
C10_NoRepeatedTierEvent ==
  (/\ pc["p2"] = "idle"
   /\ Returned("p1")
   /\ call["p1"].op = "record"
   /\ call["p1"].id = 2
   /\ resp["p1"].status = 200
   /\ hist["p1"].delta = 0
   /\ resp["p1"].points = 1010
   /\ chainPoints["a1"] = 1010
   /\ \E r \in store : r.attempt = 1)
    => /\ hist["p1"].tierMails = 0
       /\ hist["p1"].tierCasts = 0

\* C11 -- Termination: a record-transaction request that has saved its
\* document and awaits the Chain's recordTransaction eventually returns
\* (confirmed or rolled back), whether or not the Chain ever answers.
C11_EveryOrchestrationTerminates ==
  \A p \in Procs :
    (pc[p] = "w_call" /\ call[p].op = "record" /\ txn[p].open) ~> Returned(p)

\* The tier the README's table gives a balance: Bronze 0-999, Silver
\* 1,000-4,999, Gold 5,000 and more.
TierOfTable(n) ==
  CASE 0 <= n /\ n < 1000 -> "Bronze"
    [] 1000 <= n /\ n < 5000 -> "Silver"
    [] n >= 5000 -> "Gold"

\* C12 -- determineTierByPoints: whenever the handler has derived a tier from
\* a points balance, the tier is Bronze iff 0 <= points < 1000, Silver iff
\* 1000 <= points < 5000 and Gold iff points >= 5000; the successful response
\* carries that balance and that tier.
C12_TierOfPoints ==
  \A p \in Procs :
    /\ (call[p].op = "record" /\ pc[p] \in {"nm_get", "nm_chain", "nm_set", "h_finish"})
         => lv[p].newTier = TierOfTable(lv[p].points)
    /\ (call[p].op = "record" /\ Returned(p) /\ resp[p].status = 200)
         => resp[p].tier = TierOfTable(resp[p].points)

C12_Witness ==
  \E p \in Procs : /\ Returned(p)
                   /\ call[p].op = "record"
                   /\ resp[p].status = 200
                   /\ resp[p].points = 1000
                   /\ resp[p].tier = "Silver"
                   /\ hist[p].delta = 60

\* C13 -- Free-wash status: the endpoint's 200 answer reports active exactly
\* when the Chain's coupon for the address is available, not used, and not
\* yet expired at the time of the answer.
C13_ActiveIffUsable ==
  [][\A p \in Procs :
       (/\ call[p].op = "washStatus"
        /\ ~Returned(p) /\ pc'[p] = "done"
        /\ resp'[p].status = 200)
         => resp'[p].active =
              (/\ chainWash[call[p].addr].available
               /\ ~chainWash[call[p].addr].used
               /\ chainNow < chainWash[call[p].addr].expiryTime)]_vars

\* C14 -- Coercion: a getUserPoints whose Chain value lies beyond the safe
\* integer range (2^53 and more) ends in an error, and no points value
\* beyond that range is ever in the cache.
C14_NoSilentCoercion ==
  /\ \A p \in Procs :
       (/\ Returned(p)
        /\ call[p].op = "points"
        /\ hist[p].pointsFrom = "chain"
        /\ hist[p].chainValue >= TwoTo53)
         => resp[p].status = 500
  /\ \A a \in Addrs :
       cache[PointsKey(a)].present => CachedPoints(a) < TwoTo53

\* The list the cache holds under the admins key.
CachedAdmins == JSONParse(cache[AdminsKey].str).v

\* C15 -- isAdmin: on a cache miss isAdmin(a) answers true exactly when a
\* names, in whatever letter case, the owner or a member of the raw admin
\* list the Chain returned; and a cached admin list always holds the owner.
C15_IsAdminOnMiss ==
  /\ \A p \in Procs :
       (/\ Returned(p)
        /\ call[p].op = "isAdmin"
        /\ resp[p].status = 200
        /\ hist[p].adminsFrom = "chain")
         => (resp[p].admin <=> (call[p].addr = Owner \/ call[p].addr \in hist[p].rawAdmins))
  /\ cache[AdminsKey].present =>
       \E i \in 1 .. Len(CachedAdmins) : CachedAdmins[i] = ChainSpelling(Owner)

C15_Witness ==
  /\ \E p \in Procs :
       /\ Returned(p)
       /\ call[p].op = "isAdmin"
       /\ hist[p].adminsFrom = "chain"
       /\ call[p].addr = Owner
       /\ call[p].arg.casing = "lower"
       /\ Owner \notin hist[p].rawAdmins
       /\ resp[p].admin
  /\ cache[AdminsKey].present

\* C19 -- Admin routes: a request to add-admin or remove-admin makes its
\* Chain call (addAdmin / removeAdmin) only if the caller's own address is
\* an admin according to the list isAdmin decided on.
C19_OnlyAdminCallersWrite ==
  [][\A p \in Procs :
       (/\ IsAdminRoute(call[p].op)
        /\ pc[p] = "w_call"
        /\ pc'[p] # "w_call")
         => hist[p].callerAdmin]_vars

\* C16 -- Redemption: a signature request for a package type other than 1,
\* 2, 3, or against a balance on the Chain below the package's price (1000,
\* 3000, 5000), never reaches the signature step and is answered with an
\* error; it generates no signature and makes no Chain write.
C16_RefusedWithoutSignature ==
  LET price == <<1000, 3000, 5000>>
      MustRefuse(p) ==
        /\ call[p].op = "signRedeem"
        /\ \/ call[p].arg \notin 1 .. 3
           \/ chainPoints[call[p].addr] < price[call[p].arg]
  IN \A p \in Procs :
       MustRefuse(p) =>
         /\ pc[p] # "sr_sign"
         /\ hist[p].signatures = 0
         /\ hist[p].chainWrite = "none"
         /\ Returned(p) => (resp[p].status = 400 /\ ~resp[p].signature)

C16_Witness ==
  \E p \in Procs :
    /\ Returned(p)
    /\ call[p].op = "signRedeem"
    /\ call[p].arg = 2
    /\ chainPoints[call[p].addr] = PremiumPoints - 1
    /\ resp[p].status = 400
    /\ resp[p].error = "Insufficient points"

\* C17 -- Notifications absorbed: a record-transaction request that lost an
\* e-mail or a broadcast, and in which nothing else failed, is answered
\* once, with 200 and the transaction hash, and its committed document is
\* in the store.
C17_NotificationFailuresAbsorbed ==
  \A p \in Procs :
    (/\ Returned(p)
     /\ call[p].op = "record"
     /\ hist[p].lost # {}
     /\ resp[p].failedAt \in {"none", "emit"})
      => /\ resp[p].status = 200
         /\ resp[p].txHash # 0
         /\ \E r \in RecordsOf(p) : r.recordedOnChain /\ r.blockchainTxHash = resp[p].txHash

\* C18 -- Order of a successful orchestration: in a record-transaction
\* request that answered 200, the commit came before the points re-read and
\* before every e-mail and broadcast, and the points re-read came before
\* every e-mail and broadcast: no step ran ahead of one it should follow.
C18_StepsInOrder ==
  \A p \in Procs :
    (Returned(p) /\ call[p].op = "record" /\ resp[p].status = 200)
      => hist[p].early = {}

\* C20 -- Frame of recordTransaction: in the step by which the gateway's
\* recordTransaction(addr, t) returns success, none of the entries that
\* userPoints:addr, freeWashStatus:addr and nftMetadata:addr held when the
\* call was made is left in the cache (with one caller at a time, nothing
\* is stored while the call runs); and no step of the call changes any
\* other key.
C20_RecordTransactionFrame ==
  [][\A p \in Procs :
       (/\ call[p].op = "recordTx"
        /\ pc[p] \in {"w_call", "w_inv"}
        /\ (pc'[p] # pc[p] \/ lv'[p] # lv[p]))
         => /\ (pc'[p] = "done" /\ resp'[p].status = 200)
                 => \A k \in lv[p].heldBefore : ~cache'[k].present
            /\ \A k \in Keys :
                 (\A i \in 1 .. Len(InvalidationKeys("recordTx", call[p].addr)) :
                    InvalidationKeys("recordTx", call[p].addr)[i] # k)
                   => cache'[k] = cache[k]]_vars

\* C21 -- Admin cache invalidated on add and remove: the isAdmin(a) that
\* follows a successful addAdmin(a) asks the Chain and answers true; the one
\* that follows a successful removeAdmin(a) asks the Chain and answers false.
C21_IsAdminAfterWrite ==
  \A p \in Procs :
    (/\ Returned(p)
     /\ call[p].op = "isAdmin"
     /\ resp[p].status = 200
     /\ hist[p].follows # "none")
      => /\ hist[p].adminsFrom = "chain"
         /\ resp[p].admin <=> (hist[p].follows = "addAdmin")

\* C22 -- NFT cache invalidated on update: the getNFTMetadata(addr) that
\* follows a successful updateNFTMetadata(addr, ...) returns the record the
\* Chain now holds (its new tier).
C22_MetadataAfterUpdate ==
  \A p \in Procs :
    (/\ Returned(p)
     /\ call[p].op = "metadata"
     /\ resp[p].status = 200
     /\ hist[p].follows = "updateNFT")
      => resp[p].tier = chainNFT[call[p].addr].tier

\* One record-transaction request at a time, over balances on both sides of
\* each tier threshold, with e-mails and broadcasts that may fail.
InitTier == InitEnv(Balances(InitialPoints \cup {SilverThreshold, GoldThreshold - 60}),
                    NoCoupons, NoAdmins, Steady, MayFail)

SpecTier == InitTier /\ [][NextSerial]_vars

\* Points reads and recordTransaction calls side by side, with the steps
\* the event loop and Redis are bound to take: a continuation whose await
\* has settled runs, and an entry stored by setEx(key, DEFAULT_EXPIRY, ...)
\* is dropped when its ten minutes are over. The Chain's answer to a write
\* is not bound to come.
ArriveExpiry(p) == Start(p, {"points", "recordTx"})

NextExpiry ==
  \/ \E p \in Procs : ArriveExpiry(p)
  \/ \E p \in Procs : W_ChainCall(p)
  \/ \E p \in Procs : W_Invalidate(p)
  \/ \E p \in Procs : GP_CacheGet(p)
  \/ \E p \in Procs : GP_ChainRead(p)
  \/ \E p \in Procs : GP_CacheSet(p)
  \/ \E k \in Keys : Expire(k)

ReadStep(p) ==
  \/ W_Invalidate(p)
  \/ GP_CacheGet(p) \/ GP_ChainRead(p) \/ GP_CacheSet(p)

SpecExpiry ==
  /\ InitGateway
  /\ [][NextExpiry]_vars
  /\ \A p \in Procs : WF_vars(ReadStep(p))
  /\ \A k \in Keys : WF_vars(Expire(k))

\* C23 -- Tier events: the step in which a record-transaction request
\* answers 200 sends one tier-change e-mail and one tier-change broadcast
\* when the tier of the re-read points differs from the tier of the NFT
\* metadata read (Bronze when that has none), and neither when the two are
\* equal; and no other step of a request sends either.
C23_TierEventsIffChanged ==
  [][\A p \in Procs :
       LET prior == IF lv[p].nftTier = "" THEN "Bronze" ELSE lv[p].nftTier
           differ == determineTierByPoints(lv[p].points) # prior
           mails == hist'[p].tierMails - hist[p].tierMails
           casts == hist'[p].tierCasts - hist[p].tierCasts
       IN IF call[p].op = "record" /\ pc[p] = "h_finish" /\ resp'[p].status = 200
            THEN /\ mails = (IF differ THEN 1 ELSE 0)
                 /\ casts = (IF differ THEN 1 ELSE 0)
            ELSE pc[p] # "h_finish" =>
                   /\ hist'[p].tierMails \in {0, hist[p].tierMails}
                   /\ hist'[p].tierCasts \in {0, hist[p].tierCasts}]_vars

C23_Witness ==
  \E p \in Procs : /\ Returned(p)
                   /\ call[p].op = "record"
                   /\ resp[p].status = 200
                   /\ resp[p].tier = "Silver"
                   /\ chainNFT[call[p].addr].tier = "Bronze"
                   /\ hist[p].tierMails = 1
                   /\ hist[p].tierCasts = 1

\* The cache holds, for a user, a balance the Chain no longer has.
StalePoints(a) ==
  cache[PointsKey(a)].present /\ CachedPoints(a) # chainPoints[a]

\* C24 -- Eventual consistency: a cached balance that has become stale is
\* eventually gone from the cache (expired, deleted or replaced by the
\* Chain's value), from some point on the cache holds no stale balance at
\* all, and a getUserPoints that finds no entry under its key goes on to read
\* the Chain.
C24_EventuallyConsistent ==
  /\ \A a \in Addrs : StalePoints(a) ~> ~StalePoints(a)
  /\ \A a \in Addrs : <>[](~StalePoints(a))
  /\ [][\A p \in Procs :
          (/\ pc[p] = "gp_get" /\ pc'[p] # "gp_get"
           /\ ~cache[PointsKey(call[p].addr)].present)
            => pc'[p] = "gp_chain"]_vars

C24_Witness ==
  \E p \in Procs : /\ Returned(p)
                   /\ call[p].op = "recordTx"
                   /\ resp[p].status = 200
                   /\ StalePoints(call[p].addr)

\* The events of s are the first events of t.
IsPrefix(s, t) == Len(s) <= Len(t) /\ s = SubSeq(t, 1, Len(s))

\* C25 -- Activity-log keys: two getActivityLog calls that differ in the
\* address, the page or the page size hold different cache keys, a call
\* writes the cache under its own key only, a call that missed asked the
\* Chain for the page numbered page - 1 with the page size it was given, and
\* what a call returns is its own page of its own user's log as the Chain
\* holds or once held it (the log only grows), never another call's page.
C25_PagesKeptApart ==
  /\ [](\A p \in Procs :
          (Returned(p) /\ call[p].op = "activityLog" /\ resp[p].status = 200)
            => IsPrefix(resp[p].logs,
                        ChainPage(call[p].addr, call[p].arg.page - 1,
                                  call[p].arg.pageSize)))
  /\ [](\A p, q \in Procs :
          (/\ call[p].op = "activityLog" /\ pc[p] \in {"al_chain", "al_set"}
           /\ call[q].op = "activityLog" /\ pc[q] \in {"al_chain", "al_set"}
           /\ <<call[p].addr, call[p].arg>> # <<call[q].addr, call[q].arg>>)
            => lv[p].cacheKey # lv[q].cacheKey)
  /\ [](\A p \in Procs :
          (call[p].op = "activityLog" /\ hist[p].logsFrom = "chain")
            => /\ hist[p].askedIndex = call[p].arg.page - 1
               /\ hist[p].askedSize = call[p].arg.pageSize)
  /\ [][\A p \in Procs :
          (pc[p] = "al_set" /\ pc'[p] # "al_set")
            => \A k \in Keys : k # lv[p].cacheKey => cache'[k] = cache[k]]_vars

C25_Witness ==
  /\ \A p \in Procs : call[p].op = "activityLog" /\ pc[p] = "al_set"
  /\ call["p1"].addr = call["p2"].addr
  /\ call["p1"].arg = [page |-> 1, pageSize |-> 11]
  /\ call["p2"].arg = [page |-> 11, pageSize |-> 1]

\* C29 -- Activity log after a write: a getActivityLog(addr, page, pageSize)
\* that follows a successful recordTransaction(addr, t) returns the page as
\* the Chain now holds it, the new transaction's event included.
C29_ActivityLogAfterRecord ==
  \A p \in Procs :
    (/\ Returned(p) /\ call[p].op = "activityLog" /\ resp[p].status = 200
     /\ hist[p].follows = "recordTx")
      => resp[p].logs = ChainPage(call[p].addr, call[p].arg.page - 1,
                                  call[p].arg.pageSize)

\* C26 -- Store/Chain agreement: when a record-transaction request has
\* returned, the store holds a committed Transaction document of the attempt
\* if and only if the attempt's recordTransaction call succeeded on the Chain.
C26_StoreAgreesWithChain ==
  \A p \in Procs :
    (Returned(p) /\ call[p].op = "record")
      => (RecordsOf(p) # {} <=> hist[p].chainWrite = "ok")

\* C28 -- One response, one end of the session: a record-transaction request
\* that has returned has sent a response, and the calls made to finish its
\* session are one commitTransaction or one abortTransaction, followed by
\* endSession -- never an abortTransaction after the commit.
C28_OneResponseOneSessionEnd ==
  \A p \in Procs :
    (Returned(p) /\ call[p].op = "record")
      => /\ resp[p].status # 0
         /\ txn[p].session \in {<<"commitTransaction", "endSession">>,
                                <<"abortTransaction", "endSession">>}

\* C27 -- Signatures after a redemption: a sign-redeem request goes on to
\* generate a signature only while the user's balance on the Chain is at
\* least the package's price (1000, 3000, 5000); a redemption that happened
\* before the request counts.
C27_SignedOnCurrentBalance ==
  [][\A p \in Procs :
       (call[p].op = "signRedeem" /\ pc[p] # "sr_sign" /\ pc'[p] = "sr_sign")
         => chainPoints[call[p].addr] >= <<1000, 3000, 5000>>[call[p].arg]]_vars

\* C30 -- Every registered user gets an NFT: an address whose add-user
\* request saved the User document and was answered 201 eventually has a
\* loyalty NFT on the Chain.
C30_EveryUserGetsNFT ==
  \A a \in Addrs :
    (/\ a \in users
     /\ \E p \in Procs : /\ call[p].op = "add-user"
                         /\ call[p].addr = a
                         /\ resp[p].status = 201)
      ~> chainNFT[a].exists

====
